---- MODULE Spec2Model ----
(***************************************************************************)
(* Model of the claude-call request/task orchestration engine:             *)
(*   request store      src/unnamed/part_006 (lines 270-495, store.ts)     *)
(*   task queue         src/unnamed/part_001 (lines 326-688, task-queue)   *)
(*   telegram handlers  src/unnamed/part_004 (lines 1-1693, telegram.ts)   *)
(*   HTTP facade        src/server/index.ts                                *)
(*   terminal wrapper   src/wrapper/pty-wrapper.ts (lines 555-1008)        *)
(*                                                                         *)
(* Time is counted in units of five minutes, so that                       *)
(*   REQUEST_TIMEOUT (600000 ms) = 2, TASK_TIMEOUT (10 min) = 2,           *)
(*   CLEANUP_DELAY (5 min) = 1, SESSION_TTL = SESSION_TIMEOUT (1 h) = 12,  *)
(*   MULTI_QUESTION_TIMEOUT (10 min) = 2.                                  *)
(* The server is single-threaded: a handler runs without interruption      *)
(* until it awaits.  An action below is one such uninterrupted stretch.    *)
(* undefined is written "none" (strings) or 0 (numbers).                   *)
(*                                                                         *)
(* Fifteen specifications share the variables:                             *)
(*   Spec         the decision rendezvous (intake, poll, cancel, clicks,   *)
(*                replies, sweep) with no terminal session registered, so  *)
(*                that each answer handler awaits before it resolves;      *)
(*   SpecAnswer   the same with a terminal session that may register;      *)
(*   SpecStore    the request store's operations called in any order;      *)
(*   SpecQueue    one terminal session, its task queue, multi-step         *)
(*                selection;                                               *)
(*   SpecSessions the session registry with two terminals: registration,   *)
(*                routing of messages to a queue, acknowledgement;         *)
(*   SpecMulti    multi-step selection with and without a session and      *)
(*                with swept selection states;                             *)
(*   SpecInject   the human actions that enqueue keys, two terminals;      *)
(*   SpecWrapper  the task loop of the terminal wrapper: fetch, inject,    *)
(*                acknowledge;                                             *)
(*   SpecExpire   the session registry run past the inactivity threshold;  *)
(*   SpecSweep    the periodic sweep under fair scheduling of the interval *)
(*                and of the clock;                                        *)
(*   SpecIntake   two intakes in a row from one source session;            *)
(*   SpecPolling  a wrapper that keeps polling while the clock runs past   *)
(*                the inactivity threshold;                                *)
(*   SpecUpdates  pollUpdates: batches of updates from two chats, handlers *)
(*                that throw;                                              *)
(*   SpecGate     the same with two sessions, an authorization request     *)
(*                and a multi-step selection at hand;                      *)
(*   SpecReply    a reply to a question on its way through the wrapper.    *)
(* The variables named "history" record what calls returned; the program   *)
(* does not read them.                                                     *)
(***************************************************************************)
EXTENDS Integers, Sequences, FiniteSets, TLC

\* ------------------------------------------------------------- bounds
MaxTime == 5
MaxRequests == 1
MaxSessions == 1
MaxTasks == 3
MaxHits == 2
MaxNotifs == 1
MaxQuestions == 2
MaxTimers == 1
MaxMsgs == 2
\* The terminal sessions, pending deletions, clock and tasks of the session
\* registry on its own (SpecSessions); MaxSessions and MaxTimers are those of
\* SpecQueue.
MaxTerminals == 2
MaxAcks == 2
MaxClock == 2
MaxQueued == 2
\* SpecSweep: callers come up to time MaxBirth, the clock runs to MaxSweepClock
\* (beyond MaxBirth + SESSION_TTL, so that every sweep threshold is crossed).
MaxBirth == 0
MaxSweepClock == 13
\* The updates that Telegram takes in for the bot.
MaxUpdates == 3
\* SpecIntake: the requests that intakes create one after the other.
MaxIntakes == 2

\* -------------------------------------------------- program constants
REQUEST_TIMEOUT == 2
SESSION_TTL == 12
TASK_TIMEOUT == 2
CLEANUP_DELAY == 1
SESSION_TIMEOUT == 12
MULTI_QUESTION_TIMEOUT == 2
PENDING_TASK_TIMEOUT == 1

\* ------------------------------------------------------ input alphabets
\* Source session ids sent by the hook (Claude Code's own session ids).
SourceSessions == {"s1"}
\* Option lists a question intake may carry (ids of the options).
OptionLists == {<<"A", "B">>}
\* Free texts a human may send (a reply, or a new task).
Texts == {" hi "}
\* Messages a caller of addTaskToDefaultSession may pass.
DefaultTexts == {"go"}
\* SpecInject: the source sessions of the hooks and the options of a question,
\* one id of each shape (a letter, digits, anything else).
InjectSources == {"s1", "s2"}
InjectOptionLists == {<<"C", "12", "yes">>}
InjectOptionIds == {"C", "12", "yes"}
\* SpecWrapper: the option ids that a multi-step choice may carry, a single
\* digit and one that is not.
WrapperOptionIds == {"1", "10"}
\* The keystrokes on the buttons of a terminal prompt notification.
Keystrokes == {"1"}
\* The options of a sub-question of a multi-step selection, and the lists of
\* sub-questions a notification may carry.
MqOptions == <<[id |-> "1", label |-> "Yes"], [id |-> "2", label |-> "No"]>>
MqOptionIds == {MqOptions[i].id : i \in DOMAIN MqOptions}
QuestionLists == {[i \in 1..n |-> MqOptions] : n \in 1..MaxQuestions}

VARIABLES
    now,              \* Date.now()
    pendingRequests,  \* store.ts: Map requestId -> PendingRequest
    nextReq,          \* the next fresh request id (crypto.randomUUID)
    sessionStates,    \* store.ts: Map source sessionId -> SessionState
    outbox,           \* requests whose sendMessage call is in flight
    nextMsg,          \* the next Telegram message_id
    sessions,         \* task-queue.ts: Map sessionId -> Session
    nextSess,         \* the next fresh session id
    tasks,            \* task-queue.ts: Map taskId -> PendingTask
    nextTask,         \* the next fresh task id
    pendingTaskMessages, \* telegram.ts: Map message id -> text awaiting a session choice
    timers,           \* task-queue.ts: the setTimeout deletions scheduled by acknowledgeTask
    multiQuestionStates, \* telegram.ts: Map notificationId -> MultiQuestionState
    nextNotif,        \* the next fresh notification id
    pickLog,          \* history: per text awaiting a session choice, the tasks that
                      \* picks enqueued for it, and whether a pick came after that
    ackNull,          \* history: a call of acknowledgeTask returned null
    crossCall,        \* history: per request, a resolve call of the other kind was
                      \* made on it while it was unresolved
    mqRefused,        \* history: per notification, the choices the multi-step
                      \* handler turned down ("expired", "no_session")
    wrapper,          \* pty-wrapper.ts: the task loop of the terminal's wrapper
    sweptWithTasks,   \* history: the sessions that the inactivity sweep removed
                      \* while the store held a task of theirs
    linked,           \* history: per request, the tasks enqueued with it as their
                      \* linkedRequestId
    telegram,         \* the updates that Telegram holds for the bot; the update_id of
                      \* an update is its position
    poller,           \* telegram.ts: lastUpdateId and the rest of the batch that
                      \* pollUpdates is walking through; awaiting: the handler of
                      \* the last update has made its changes and awaits a
                      \* Telegram call that may throw (dropped, history: the
                      \* updates left in a batch when a handler threw)
    dispatched,       \* history: per update, the times pollUpdates handed it to a handler
    mqLog,            \* history: per notification, its number of sub-questions and the
                      \* lengths of the sequences its accepted choices enqueued
    tg,               \* the Telegram update handler that is awaiting, if any
    resolveOk,        \* history: per request, resolve calls that returned true
    firstWin,         \* history: per request, the value of the first such call
    lateCall,         \* history: a resolve call was made on the resolved request
    timeoutSeen,      \* history: a poll found the request unresolved and timed out
    pendingSeen,      \* history: a poll of the unresolved question request after its
                      \* budget was answered pending
    refused,          \* history: with a terminal session registered, a click or
                      \* reply for the request was answered "already handled"
    humanRes,         \* history: the value a human action resolved the request with
    picked,           \* history: the option of the first pick handled on the unresolved request
    allowAllHits      \* history: intakes answered at once, per source session

vars == <<now, pendingRequests, nextReq, sessionStates, outbox, nextMsg,
          sessions, nextSess, tasks, nextTask, pendingTaskMessages, timers,
          multiQuestionStates, nextNotif, mqLog, pickLog, ackNull,
          crossCall, mqRefused, wrapper, sweptWithTasks, linked, telegram, poller,
          dispatched, tg,
          resolveOk, firstWin, lateCall, timeoutSeen, pendingSeen, refused, humanRes,
          picked, allowAllHits>>

ReqIds == 1..MaxRequests
NotifIds == 1..MaxNotifs

\* ---------------------------------------------------------------- store
createAuthRequest(reqs, id, sessionId, t) ==
    reqs @@ (id :> [sessionId |-> sessionId, type |-> "authorization",
                    createdAt |-> t, resolved |-> FALSE, cancelled |-> FALSE,
                    decision |-> "none", selectedOption |-> "none",
                    messageId |-> 0, options |-> <<>>])

createQuestionRequest(reqs, id, sessionId, options, t) ==
    reqs @@ (id :> [sessionId |-> sessionId, type |-> "question",
                    createdAt |-> t, resolved |-> FALSE, cancelled |-> FALSE,
                    decision |-> "none", selectedOption |-> "none",
                    messageId |-> 0, options |-> options])

\* The guard of resolveAuthRequest without the type check (mutant).
resolveAuthGuardNoTypeCheck(reqs, id) ==
    id \in DOMAIN reqs /\ ~reqs[id].resolved

\* The guard of resolveAuthRequest without the resolved check (mutant).
resolveAuthGuardNoResolvedCheck(reqs, id) ==
    id \in DOMAIN reqs /\ reqs[id].type = "authorization"

\* resolveAuthRequest returns true exactly when this holds.
resolveAuthGuard(reqs, id) ==
    id \in DOMAIN reqs /\ ~reqs[id].resolved /\ reqs[id].type = "authorization"

resolveAuthRequest(reqs, id, decision) ==
    IF resolveAuthGuard(reqs, id)
    THEN [reqs EXCEPT ![id].resolved = TRUE, ![id].decision = decision]
    ELSE reqs

\* The guard of resolveQuestionRequest without the resolved check (mutant).
resolveQuestionGuardNoResolvedCheck(reqs, id) ==
    id \in DOMAIN reqs /\ reqs[id].type = "question"

\* resolveQuestionRequest returns true exactly when this holds.
resolveQuestionGuard(reqs, id) ==
    id \in DOMAIN reqs /\ ~reqs[id].resolved /\ reqs[id].type = "question"

\* resolveQuestionRequest writing whatever the state of the request (mutant).
resolveQuestionRequestUnchecked(reqs, id, selectedOption) ==
    IF id \in DOMAIN reqs /\ reqs[id].type = "question"
    THEN [reqs EXCEPT ![id].resolved = TRUE, ![id].selectedOption = selectedOption]
    ELSE reqs

resolveQuestionRequest(reqs, id, selectedOption) ==
    IF resolveQuestionGuard(reqs, id)
    THEN [reqs EXCEPT ![id].resolved = TRUE, ![id].selectedOption = selectedOption]
    ELSE reqs

\* cancelRequest returns the request (not null) exactly when this holds.
cancelGuard(reqs, id) == id \in DOMAIN reqs /\ ~reqs[id].resolved

cancelRequest(reqs, id) ==
    IF cancelGuard(reqs, id)
    THEN [reqs EXCEPT ![id].resolved = TRUE, ![id].cancelled = TRUE]
    ELSE reqs

setRequestMessageId(reqs, id, messageId) ==
    IF id \in DOMAIN reqs THEN [reqs EXCEPT ![id].messageId = messageId] ELSE reqs

\* isRequestTimedOut with the comparison turned around (mutant).
isRequestTimedOutNever(request, t) == t - request.createdAt > REQUEST_TIMEOUT + MaxTime + 1

isRequestTimedOut(request, t) == t - request.createdAt > REQUEST_TIMEOUT

\* getRequestByMessageId: the first request carrying that message id, 0 if none.
getRequestByMessageId(reqs, messageId) ==
    LET hits == {id \in DOMAIN reqs : reqs[id].messageId = messageId}
    IN  IF hits = {} THEN 0 ELSE CHOOSE id \in hits : \A j \in hits : id <= j

\* getSessionState: the state of the source session is created on first use,
\* with allowAll false.
getSessionState(states, sessionId, t) ==
    IF sessionId \in DOMAIN states THEN states
    ELSE states @@ (sessionId :> [allowAll |-> FALSE, createdAt |-> t])

\* setSessionAllowAll: getSessionState(sessionId).allowAll = true.
setSessionAllowAll(states, sessionId, t) ==
    [getSessionState(states, sessionId, t) EXCEPT ![sessionId].allowAll = TRUE]

\* isSessionAllowAll answering false always (mutant).
isSessionAllowAllIgnored(states, sessionId) == FALSE

isSessionAllowAll(states, sessionId) ==
    IF sessionId \in DOMAIN states THEN states[sessionId].allowAll ELSE FALSE

Restrict(f, S) == [x \in S |-> f[x]]

\* cleanupSession: the state of the source session is deleted, and every
\* request of that session, whatever its age and whether resolved or not.
cleanupSessionState(states, sessionId) ==
    Restrict(states, DOMAIN states \ {sessionId})

cleanupSessionRequests(reqs, sessionId) ==
    Restrict(reqs, {id \in DOMAIN reqs : reqs[id].sessionId # sessionId})

\* cleanupStale: requests older than twice the timeout, then old session states.
cleanupStaleRequests(reqs, t) ==
    Restrict(reqs, {id \in DOMAIN reqs : ~(t - reqs[id].createdAt > REQUEST_TIMEOUT * 2)})

\* cleanupStale keeping every session state (mutant).
cleanupStaleStatesNone(states, t) == states

cleanupStaleStates(states, t) ==
    Restrict(states, {s \in DOMAIN states : ~(t - states[s].createdAt > SESSION_TTL)})

\* ----------------------------------------------------------- task queue
\* String.prototype.trim on the texts of the alphabet.
trim(text) == IF text = " hi " THEN "hi" ELSE text

NoTg == [kind |-> "idle", req |-> 0, val |-> "none"]

\* A task as the wrapper holds it (the JSON of GET /tasks/pending); NoTask: none.
NoTask == [id |-> 0, type |-> "none", message |-> "", sequence |-> <<>>]

\* The task loop of the wrapper before its first round: no batch fetched, no
\* tmux command run, no acknowledgement sent.  History fields: injections, per
\* task the times injectTask ran a command for it (counted up to MaxHits);
\* fetchedAt, the time of the last fetch; steady, no two fetches in a row were
\* more than one time unit apart.
NoWrapper == [session |-> 0, batch |-> <<>>, sent |-> <<>>,
              lastAck |-> [task |-> NoTask, success |-> TRUE, sent |-> <<>>],
              injections |-> [t \in 1..MaxTasks |-> 0],
              fetchedAt |-> 0, steady |-> TRUE]

\* pollUpdates before its first getUpdates: let lastUpdateId = 0, no batch,
\* no handler awaiting.
NoPoller == [lastUpdateId |-> 0, batch |-> <<>>, dropped |-> {}, awaiting |-> FALSE]

\* Of a Session the model keeps lastActivity, the one field the code computes with.
registerSession(sess, id, t) ==
    sess @@ (id :> [lastActivity |-> t])

touchSession(sess, sessionId, t) ==
    IF sessionId \in DOMAIN sess
    THEN [sess EXCEPT ![sessionId].lastActivity = t]
    ELSE sess

\* The result of a stable sort of the ids in S, where before holds the pairs
\* <<a, b>> such that a is placed before b.
SortedIds(S, before) ==
    [i \in 1..Cardinality(S) |->
        CHOOSE x \in S : Cardinality({y \in S : <<y, x>> \in before}) = i - 1]

\* getAllSessions: by lastActivity descending; Array.prototype.sort is stable,
\* so equal lastActivity keeps the Map's insertion order (ascending id).
sessionBefore(sess, a, b) ==
    \/ sess[b].lastActivity - sess[a].lastActivity < 0
    \/ sess[b].lastActivity - sess[a].lastActivity = 0 /\ a < b

\* getAllSessions sorting by lastActivity ascending (mutant).
getAllSessionsAscending(sess) ==
    SortedIds(DOMAIN sess,
              {p \in (DOMAIN sess) \X (DOMAIN sess) : sessionBefore(sess, p[2], p[1])})

getAllSessions(sess) ==
    SortedIds(DOMAIN sess,
              {p \in (DOMAIN sess) \X (DOMAIN sess) : sessionBefore(sess, p[1], p[2])})

\* addTaskToDefaultSession: the session it adds the task to, 0 (it returns
\* null) when no session is registered.
defaultSession(sess) ==
    IF DOMAIN sess = {} THEN 0 ELSE getAllSessions(sess)[1]

addTask(tsk, id, sessionId, message, t) ==
    tsk @@ (id :> [sessionId |-> sessionId, message |-> trim(message), createdAt |-> t,
                   acknowledged |-> FALSE, type |-> "none", requestId |-> 0,
                   sequence |-> <<>>])

addKeystrokeTask(tsk, id, sessionId, keystroke, requestId, t) ==
    tsk @@ (id :> [sessionId |-> sessionId, message |-> keystroke, createdAt |-> t,
                   acknowledged |-> FALSE, type |-> "keystroke",
                   requestId |-> requestId, sequence |-> <<>>])

RECURSIVE Join(_)
Join(keys) ==
    IF keys = <<>> THEN ""
    ELSE IF Len(keys) = 1 THEN keys[1]
    ELSE keys[1] \o " → " \o Join(Tail(keys))

addSequenceTask(tsk, id, sessionId, keystrokes, requestId, t) ==
    tsk @@ (id :> [sessionId |-> sessionId, message |-> Join(keystrokes),
                   createdAt |-> t, acknowledged |-> FALSE, type |-> "sequence",
                   requestId |-> requestId, sequence |-> keystrokes])

\* unregisterSession returns true exactly when the session is registered.
unregisterSession(sess, sessionId) ==
    Restrict(sess, DOMAIN sess \ {sessionId})

\* unregisterSession deleting the unacknowledged tasks only (mutant).
unregisterTasksPendingOnly(tsk, sessionId) ==
    Restrict(tsk, {id \in DOMAIN tsk :
                      ~(tsk[id].sessionId = sessionId /\ ~tsk[id].acknowledged)})

\* POST /sessions/:id/unregister: success is what unregisterSession returned.
unregisterResponse(sess, sessionId) == [success |-> sessionId \in DOMAIN sess]

\* unregisterSession: the session and every task of it.
unregisterTasks(tsk, sessionId) ==
    Restrict(tsk, {id \in DOMAIN tsk : tsk[id].sessionId # sessionId})

\* cleanupTasks removing the inactive sessions only (mutant).
cleanupExpiredTasksNone(tsk, t) == tsk

\* cleanupTasks: expired tasks, then inactive sessions.
cleanupExpiredTasks(tsk, t) ==
    Restrict(tsk, {id \in DOMAIN tsk : ~(t - tsk[id].createdAt > TASK_TIMEOUT)})

cleanupInactiveSessions(sess, t) ==
    Restrict(sess, {id \in DOMAIN sess : ~(t - sess[id].lastActivity > SESSION_TIMEOUT)})

\* getSession: the id of the session with that full or short id, 0 if none.
getSession(sess, idOrShortId) ==
    IF idOrShortId \in DOMAIN sess THEN idOrShortId ELSE 0

\* The comparator of getPendingTasks: negative when a goes before b.
pendingCompare(tsk, a, b) ==
    IF tsk[a].type = "keystroke" /\ tsk[b].type # "keystroke" THEN -1
    ELSE IF tsk[a].type # "keystroke" /\ tsk[b].type = "keystroke" THEN 1
    ELSE tsk[a].createdAt - tsk[b].createdAt

\* getPendingTasks: the unacknowledged tasks of the session, sorted (stably:
\* on a tie the Map's insertion order, which is ascending id, stays).
getPendingTasks(tsk, sessionId) ==
    LET pending == {id \in DOMAIN tsk :
                       tsk[id].sessionId = sessionId /\ ~tsk[id].acknowledged}
    IN  SortedIds(pending,
                  {p \in pending \X pending :
                      \/ pendingCompare(tsk, p[1], p[2]) < 0
                      \/ pendingCompare(tsk, p[1], p[2]) = 0 /\ p[1] < p[2]})

\* POST /tasks/:id/ack answering success for any id (mutant).
ackResponseAlways(tsk, taskId) == [success |-> TRUE]

\* POST /tasks/:id/ack: success exactly when acknowledgeTask returned the task.
ackResponse(tsk, taskId) == [success |-> taskId \in DOMAIN tsk]

\* acknowledgeTask deleting the task at once (mutant).
acknowledgeTaskDeleting(tsk, taskId) == Restrict(tsk, DOMAIN tsk \ {taskId})

\* acknowledgeTask: the task is flagged; it stays in the Map until a timer fires.
acknowledgeTask(tsk, taskId) ==
    IF taskId \in DOMAIN tsk THEN [tsk EXCEPT ![taskId].acknowledged = TRUE] ELSE tsk

\* Remove the i-th element of a sequence.
RemoveAt(seq, i) == SubSeq(seq, 1, i - 1) \o SubSeq(seq, i + 1, Len(seq))

\* cleanupPendingTaskMessages: the expired texts awaiting a session choice ...
cleanupPendingTasks(msgs, t) ==
    Restrict(msgs, {m \in DOMAIN msgs :
                       ~(t - msgs[m].createdAt > PENDING_TASK_TIMEOUT)})

\* ... and the expired multi-question states.
cleanupMultiQuestionStates(states, t) ==
    Restrict(states, {n \in DOMAIN states :
                         ~(t - states[n].createdAt > MULTI_QUESTION_TIMEOUT)})

\* ----------------------------------------------- option id -> keystroke
\* The strings that /^[A-Z]$/ matches, in the order of their char codes, and
\* String(k) for k = charCode - 64.
Letters == <<"A", "B", "C", "D", "E", "F", "G", "H", "I", "J", "K", "L", "M",
             "N", "O", "P", "Q", "R", "S", "T", "U", "V", "W", "X", "Y", "Z">>
Numerals == <<"1", "2", "3", "4", "5", "6", "7", "8", "9", "10", "11", "12", "13",
              "14", "15", "16", "17", "18", "19", "20", "21", "22", "23", "24",
              "25", "26">>

\* The strings of one or two characters that /^\d+$/ matches (the ids of the
\* alphabet are no longer).
Digits == {"0", "1", "2", "3", "4", "5", "6", "7", "8", "9"}
DigitStrings == Digits \cup {a \o b : a \in Digits, b \in Digits}

\* processCallback answering an id of unexpected shape by refusing it (mutant):
\* no keystroke.
optionKeystrokeStrict(optionId) ==
    IF \E k \in DOMAIN Letters : Letters[k] = optionId
    THEN Numerals[CHOOSE k \in DOMAIN Letters : Letters[k] = optionId]
    ELSE IF optionId \in DigitStrings
    THEN optionId
    ELSE ""

\* processCallback (opt:): /^[A-Z]$/ gives the letter's position, /^\d+$/ the
\* id itself, anything else "1".
optionKeystroke(optionId) ==
    IF \E k \in DOMAIN Letters : Letters[k] = optionId
    THEN Numerals[CHOOSE k \in DOMAIN Letters : Letters[k] = optionId]
    ELSE IF optionId \in DigitStrings
    THEN optionId
    ELSE "1"

\* processReplyMessage: trim, then strip control characters and escape
\* sequences (the texts of the alphabet hold none).
sanitize(text) == trim(text)

\* ---------------------------------------------------------------- Init
Init ==
    /\ now = 0
    /\ pendingRequests = <<>>
    /\ nextReq = 1
    /\ sessionStates = <<>>
    /\ outbox = {}
    /\ nextMsg = 1
    /\ sessions = <<>>
    /\ nextSess = 1
    /\ tasks = <<>>
    /\ nextTask = 1
    /\ pendingTaskMessages = <<>>
    /\ timers = <<>>
    /\ multiQuestionStates = <<>>
    /\ nextNotif = 1
    /\ mqLog = [n \in NotifIds |-> [total |-> 0, lens |-> <<>>]]
    /\ pickLog = [m \in 1..MaxMsgs |-> [enqueued |-> 0, late |-> FALSE]]
    /\ ackNull = FALSE
    /\ crossCall = [r \in ReqIds |-> FALSE]
    /\ mqRefused = [n \in NotifIds |-> {}]
    /\ wrapper = NoWrapper
    /\ sweptWithTasks = {}
    /\ linked = [r \in ReqIds |-> 0]
    /\ telegram = <<>>
    /\ poller = NoPoller
    /\ dispatched = [u \in 1..MaxUpdates |-> 0]
    /\ tg = NoTg
    /\ resolveOk = [r \in ReqIds |-> 0]
    /\ firstWin = [r \in ReqIds |-> "none"]
    /\ lateCall = [r \in ReqIds |-> FALSE]
    /\ timeoutSeen = [r \in ReqIds |-> FALSE]
    /\ pendingSeen = [r \in ReqIds |-> FALSE]
    /\ refused = [r \in ReqIds |-> FALSE]
    /\ humanRes = [r \in ReqIds |-> "none"]
    /\ picked = [r \in ReqIds |-> "none"]
    /\ allowAllHits = [s \in SourceSessions |-> 0]

storeVars == <<pendingRequests, nextReq, sessionStates, outbox, nextMsg>>
queueVars == <<sessions, nextSess, tasks, nextTask>>
mqVars == <<multiQuestionStates, nextNotif, mqLog>>
edgeVars == <<crossCall, mqRefused, wrapper, sweptWithTasks>>
pollVars == <<telegram, poller, dispatched>>
moreVars == <<linked, pollVars>>
handlerAux == <<pendingTaskMessages, timers, multiQuestionStates, nextNotif, mqLog,
                pickLog, ackNull, edgeVars, linked>>
auxVars == <<handlerAux, pollVars>>
resolveHist == <<resolveOk, firstWin, lateCall, humanRes>>
histVars == <<resolveOk, firstWin, lateCall, timeoutSeen, pendingSeen, refused, humanRes,
              picked, allowAllHits>>

\* The histories are those of the requests in the store: the history h of a
\* request that the sweep deletes goes back to its initial value.
KeepHist(h, kept, initial) ==
    [r \in ReqIds |-> IF r \in kept \/ r >= nextReq THEN h[r] ELSE initial]

\* History of one call of resolveAuthRequest / resolveQuestionRequest on r that
\* returned ok.
LogResolve(r, ok, value) ==
    /\ resolveOk' = IF ok THEN [resolveOk EXCEPT ![r] = @ + 1] ELSE resolveOk
    /\ firstWin' = IF ok /\ resolveOk[r] = 0
                   THEN [firstWin EXCEPT ![r] = value] ELSE firstWin
    /\ lateCall' = IF r \in DOMAIN pendingRequests /\ pendingRequests[r].resolved
                   THEN [lateCall EXCEPT ![r] = TRUE] ELSE lateCall

\* The same for a call that carries a human's decision (button or reply);
\* humanRes keeps the decision when it resolved the request within its budget.
LogHuman(r, ok, value) ==
    /\ LogResolve(r, ok, value)
    /\ humanRes' = IF ok /\ now - pendingRequests[r].createdAt <= REQUEST_TIMEOUT
                    THEN [humanRes EXCEPT ![r] = value] ELSE humanRes

\* History of a click or reply for r that took the handler's return named by
\* branch while a terminal session was there to take a keystroke.
LogRefused(r, branch) ==
    refused' = IF branch = "resolved" /\ DOMAIN sessions # {}
               THEN [refused EXCEPT ![r] = TRUE] ELSE refused

\* History of a direct call, on r, of the resolve operation for requests of
\* type kind: it is logged when r is unresolved and of the other type.
LogCross(r, kind) ==
    crossCall' = IF r \in DOMAIN pendingRequests /\ ~pendingRequests[r].resolved
                    /\ pendingRequests[r].type # kind
                 THEN [crossCall EXCEPT ![r] = TRUE] ELSE crossCall

\* History of a click or reply for r: enqueued holds when the handler called
\* addKeystrokeTask(target, keys, r).
LogLinked(r, enqueued) ==
    linked' = IF enqueued THEN [linked EXCEPT ![r] = @ + 1] ELSE linked

\* History of a pick of optionId on a question request that was unresolved when
\* the pick was handled: the first pick the handler accepted or turned down.
LogPick(r, optionId) ==
    picked' = IF picked[r] = "none" THEN [picked EXCEPT ![r] = optionId] ELSE picked

\* ------------------------------------------------------------ HTTP facade
\* handleAuthorize looking at allow-all before the type of the intake (mutant).
authorizeBranchAllowFirst(states, sessionId, type, hasQA) ==
    IF isSessionAllowAll(states, sessionId) THEN "allow"
    ELSE IF type = "question" /\ hasQA THEN "question"
    ELSE "authorization"

\* handleAuthorize: which of its three returns the intake takes.  hasQA: the
\* body carries both a question and options.
authorizeBranch(states, sessionId, type, hasQA) ==
    IF type = "question" /\ hasQA THEN "question"
    ELSE IF isSessionAllowAll(states, sessionId) THEN "allow"
    ELSE "authorization"

\* handleAuthorize: the response.
authorizeResponse(states, sessionId, type, hasQA) ==
    IF authorizeBranch(states, sessionId, type, hasQA) = "allow"
    THEN [status |-> "resolved", decision |-> "allow"]
    ELSE [status |-> "pending", decision |-> "none"]

\* POST /authorize, while fewer than limit requests were created.
AuthorizeUpTo(limit, sessionId, type, hasQA, options) ==
    LET branch == authorizeBranch(sessionStates, sessionId, type, hasQA) IN
    /\ IF branch = "question"
       THEN /\ nextReq <= limit
            /\ pendingRequests' =
                   createQuestionRequest(pendingRequests, nextReq, sessionId, options, now)
            /\ nextReq' = nextReq + 1
            /\ outbox' = outbox \cup {nextReq}
            /\ UNCHANGED allowAllHits
       ELSE IF branch = "allow"
       THEN /\ UNCHANGED <<pendingRequests, nextReq, outbox>>
            /\ allowAllHits' = [allowAllHits EXCEPT
                                   ![sessionId] = IF @ < MaxHits THEN @ + 1 ELSE @]
       ELSE /\ nextReq <= limit
            /\ pendingRequests' =
                   createAuthRequest(pendingRequests, nextReq, sessionId, now)
            /\ nextReq' = nextReq + 1
            /\ outbox' = outbox \cup {nextReq}
            /\ UNCHANGED allowAllHits
    /\ UNCHANGED <<now, sessionStates, nextMsg, queueVars, tg,
                   resolveHist, timeoutSeen, pendingSeen, refused, picked>>
    /\ UNCHANGED auxVars

HandleAuthorize(sessionId, type, hasQA, options) ==
    AuthorizeUpTo(MaxRequests, sessionId, type, hasQA, options)

\* sendAuthRequest / sendQuestionRequest after the await: sendMessage returned.
SendDelivered(r) ==
    /\ r \in outbox
    /\ outbox' = outbox \ {r}
    /\ pendingRequests' = setRequestMessageId(pendingRequests, r, nextMsg)
    /\ nextMsg' = nextMsg + 1
    /\ UNCHANGED <<now, nextReq, sessionStates, queueVars, tg, histVars>>
    /\ UNCHANGED auxVars

\* ... or threw: the error is logged and the request keeps no message id.
SendFailed(r) ==
    /\ r \in outbox
    /\ outbox' = outbox \ {r}
    /\ UNCHANGED <<now, pendingRequests, nextReq, sessionStates, nextMsg,
                   queueVars, tg, histVars>>
    /\ UNCHANGED auxVars

\* handlePoll with the timeout looked at before the resolved flag (mutant).
pollResponseTimeoutFirst(reqs, r, t) ==
    IF r \notin DOMAIN reqs
    THEN [status |-> "not_found", decision |-> "none", selectedOption |-> "none"]
    ELSE IF isRequestTimedOut(reqs[r], t) /\ reqs[r].type = "authorization"
    THEN [status |-> "timeout", decision |-> "deny", selectedOption |-> "none"]
    ELSE IF reqs[r].resolved
    THEN [status |-> "resolved", decision |-> reqs[r].decision,
          selectedOption |-> reqs[r].selectedOption]
    ELSE [status |-> "pending", decision |-> "none", selectedOption |-> "none"]

\* handlePoll answering timeout whatever the type of the request (mutant).
pollResponseAnyType(reqs, r, t) ==
    IF r \notin DOMAIN reqs
    THEN [status |-> "not_found", decision |-> "none", selectedOption |-> "none"]
    ELSE IF reqs[r].resolved
    THEN [status |-> "resolved", decision |-> reqs[r].decision,
          selectedOption |-> reqs[r].selectedOption]
    ELSE IF isRequestTimedOut(reqs[r], t)
    THEN [status |-> "timeout", decision |-> "deny", selectedOption |-> "none"]
    ELSE [status |-> "pending", decision |-> "none", selectedOption |-> "none"]

\* handlePoll: the response to a poll of r at time t.
pollResponse(reqs, r, t) ==
    IF r \notin DOMAIN reqs
    THEN [status |-> "not_found", decision |-> "none", selectedOption |-> "none"]
    ELSE IF reqs[r].resolved
    THEN [status |-> "resolved", decision |-> reqs[r].decision,
          selectedOption |-> reqs[r].selectedOption]
    ELSE IF isRequestTimedOut(reqs[r], t) /\ reqs[r].type = "authorization"
    THEN [status |-> "timeout", decision |-> "deny", selectedOption |-> "none"]
    ELSE [status |-> "pending", decision |-> "none", selectedOption |-> "none"]

\* handlePoll: the store after the poll (the timeout answer resolves to deny).
pollEffectNone(reqs, r, t) == reqs

pollEffect(reqs, r, t) ==
    IF pollResponse(reqs, r, t).status = "timeout"
    THEN resolveAuthRequest(reqs, r, "deny")
    ELSE reqs

\* GET /poll/:requestId
HandlePoll(r) ==
    /\ timeoutSeen' =
           IF /\ r \in DOMAIN pendingRequests
              /\ ~pendingRequests[r].resolved
              /\ pendingRequests[r].type = "authorization"
              /\ now - pendingRequests[r].createdAt > REQUEST_TIMEOUT
           THEN [timeoutSeen EXCEPT ![r] = TRUE] ELSE timeoutSeen
    /\ pendingSeen' =
           IF /\ r \in DOMAIN pendingRequests
              /\ ~pendingRequests[r].resolved
              /\ pendingRequests[r].type = "question"
              /\ now - pendingRequests[r].createdAt > REQUEST_TIMEOUT
              /\ pollResponse(pendingRequests, r, now).status = "pending"
           THEN [pendingSeen EXCEPT ![r] = TRUE] ELSE pendingSeen
    /\ pendingRequests' = pollEffect(pendingRequests, r, now)
    /\ IF pollResponse(pendingRequests, r, now).status = "timeout"
       THEN LogResolve(r, resolveAuthGuard(pendingRequests, r), "deny")
       ELSE UNCHANGED <<resolveOk, firstWin, lateCall>>
    /\ UNCHANGED <<now, nextReq, sessionStates, outbox, nextMsg, queueVars, tg,
                   refused, humanRes, picked, allowAllHits>>
    /\ UNCHANGED auxVars

\* POST /cancel/:requestId
HandleCancel(r) ==
    /\ pendingRequests' = cancelRequest(pendingRequests, r)
    /\ UNCHANGED <<now, nextReq, sessionStates, outbox, nextMsg, queueVars, tg, histVars>>
    /\ UNCHANGED auxVars

\* POST /sessions/register
HandleRegister ==
    /\ nextSess <= MaxTerminals
    /\ sessions' = registerSession(sessions, nextSess, now)
    /\ nextSess' = nextSess + 1
    /\ UNCHANGED <<now, storeVars, tasks, nextTask, tg, histVars>>
    /\ UNCHANGED auxVars

\* POST /sessions/:id/unregister
HandleUnregister(sessionId) ==
    /\ IF unregisterResponse(sessions, sessionId).success
       THEN /\ sessions' = unregisterSession(sessions, sessionId)
            /\ tasks' = unregisterTasks(tasks, sessionId)
       ELSE UNCHANGED <<sessions, tasks>>
    /\ UNCHANGED <<now, storeVars, nextSess, nextTask, tg, histVars>>
    /\ UNCHANGED auxVars

\* The 60 s interval: cleanupStale(); cleanupTasks(); cleanupPendingTaskMessages().
CleanupInterval ==
    /\ pendingRequests' = cleanupStaleRequests(pendingRequests, now)
    /\ sessionStates' = cleanupStaleStates(sessionStates, now)
    /\ tasks' = cleanupExpiredTasks(tasks, now)
    /\ sessions' = cleanupInactiveSessions(sessions, now)
    /\ pendingTaskMessages' = cleanupPendingTasks(pendingTaskMessages, now)
    /\ multiQuestionStates' = cleanupMultiQuestionStates(multiQuestionStates, now)
    /\ LET kept == DOMAIN cleanupStaleRequests(pendingRequests, now) IN
       /\ resolveOk' = KeepHist(resolveOk, kept, 0)
       /\ firstWin' = KeepHist(firstWin, kept, "none")
       /\ lateCall' = KeepHist(lateCall, kept, FALSE)
       /\ timeoutSeen' = KeepHist(timeoutSeen, kept, FALSE)
       /\ pendingSeen' = KeepHist(pendingSeen, kept, FALSE)
       /\ refused' = KeepHist(refused, kept, FALSE)
       /\ humanRes' = KeepHist(humanRes, kept, "none")
       /\ picked' = KeepHist(picked, kept, "none")
       /\ crossCall' = KeepHist(crossCall, kept, FALSE)
       /\ linked' = KeepHist(linked, kept, 0)
    /\ sweptWithTasks' = sweptWithTasks \cup
           {id \in DOMAIN sessions :
               /\ id \notin DOMAIN cleanupInactiveSessions(sessions, now)
               /\ \E t \in DOMAIN tasks : tasks[t].sessionId = id}
    /\ UNCHANGED <<now, nextReq, outbox, nextMsg, nextSess, nextTask, timers,
                   nextNotif, mqLog, pickLog, ackNull, mqRefused, wrapper, pollVars,
                   tg, allowAllHits>>

\* Time passes, up to limit.
TickUpTo(limit) ==
    /\ now < limit
    /\ now' = now + 1
    /\ UNCHANGED <<storeVars, queueVars, tg, histVars>>
    /\ UNCHANGED auxVars

Tick == TickUpTo(MaxTime)

\* ------------------------------------------------------ Telegram updates
\* pollUpdates awaits each handler in turn, so at most one handler is in
\* flight; tg holds it while it awaits a Telegram call that comes before a
\* change of state.
Idle == tg = NoTg

\* processCallback (allow/deny/allowall) taking the button's decision whatever
\* the age of the request (mutant).
authCallbackDecisionNoTimeout(request, action, t) ==
    IF action = "deny" THEN "deny" ELSE "allow"

\* processCallback (allow/deny/allowall): the decision it resolves the
\* unresolved request with.
authCallbackDecision(request, action, t) ==
    IF isRequestTimedOut(request, t) THEN "deny"
    ELSE IF action = "deny" THEN "deny" ELSE "allow"

\* processCallback (allow/deny/allowall): which of its returns the click takes.
authCallbackBranch(reqs, r, t) ==
    IF r \notin DOMAIN reqs THEN "not_found"
    ELSE IF reqs[r].resolved THEN "resolved"
    ELSE IF isRequestTimedOut(reqs[r], t) THEN "timeout"
    ELSE "accept"

\* processCallback (allow/deny/allowall): the text of answerCallbackQuery and
\* the status text of updateMessage ("none": the message is not edited).
authCallbackOutput(reqs, r, action, t) ==
    LET branch == authCallbackBranch(reqs, r, t) IN
    IF branch = "not_found" THEN [answer |-> "Request not found", edit |-> "none"]
    ELSE IF branch = "resolved" THEN [answer |-> "Already processed", edit |-> "none"]
    ELSE IF branch = "timeout"
    THEN [answer |-> "Request timed out", edit |-> "Timeout - Denied"]
    ELSE IF action = "deny" THEN [answer |-> "Denied", edit |-> "Denied"]
    ELSE IF action = "allowall" THEN [answer |-> "Allowed", edit |-> "Allowed (All Session)"]
    ELSE [answer |-> "Allowed", edit |-> "Allowed"]

\* processCallback, "allow:<id>" / "deny:<id>" / "allowall:<id>".  The buttons
\* exist on the message of an authorization request only.
CallbackAuthHandler(action, r) ==
    /\ Idle
    /\ r \in 1..(nextReq - 1)
    /\ r \in DOMAIN pendingRequests => pendingRequests[r].type = "authorization"
    /\ IF authCallbackBranch(pendingRequests, r, now) \in {"not_found", "resolved"}
       THEN UNCHANGED <<pendingRequests, sessionStates, resolveHist>>
       ELSE LET request == pendingRequests[r]
                decision == authCallbackDecision(request, action, now)
                ok == resolveAuthGuard(pendingRequests, r)
            IN
            /\ sessionStates' =
                   IF action = "allowall" /\ ~isRequestTimedOut(request, now)
                   THEN setSessionAllowAll(sessionStates, request.sessionId, now)
                   ELSE sessionStates
            /\ pendingRequests' = resolveAuthRequest(pendingRequests, r, decision)
            /\ IF isRequestTimedOut(request, now)
               THEN LogResolve(r, ok, decision) /\ UNCHANGED humanRes
               ELSE LogHuman(r, ok, decision)
    /\ LogRefused(r, authCallbackBranch(pendingRequests, r, now))
    /\ UNCHANGED <<now, nextReq, outbox, nextMsg, queueVars, tg,
                   timeoutSeen, pendingSeen, picked, allowAllHits>>
    /\ UNCHANGED handlerAux

\* The click handled with pollUpdates at rest.
ProcessCallbackAuth(action, r) == CallbackAuthHandler(action, r) /\ UNCHANGED pollVars

\* processCallback (opt:) with the resolved check left out (mutant).
optCallbackBranchNoResolvedCheck(reqs, r, t) ==
    IF r \notin DOMAIN reqs THEN "not_found"
    ELSE IF isRequestTimedOut(reqs[r], t) THEN "timeout"
    ELSE "accept"

\* processCallback (opt:): which of its returns the click takes.
optCallbackBranch(reqs, r, t) ==
    IF r \notin DOMAIN reqs THEN "not_found"
    ELSE IF reqs[r].resolved THEN "resolved"
    ELSE IF isRequestTimedOut(reqs[r], t) THEN "timeout"
    ELSE "accept"

\* processCallback (opt:): the text of answerCallbackQuery and the status text
\* of updateMessage for each return ("none": the message is not edited).  The
\* texts the code writes in Chinese are given in English.
optCallbackOutput(branch) ==
    IF branch = "not_found" THEN [answer |-> "Request not found", edit |-> "none"]
    ELSE IF branch = "resolved" THEN [answer |-> "Already answered", edit |-> "none"]
    ELSE IF branch = "timeout" THEN [answer |-> "Request timed out", edit |-> "Timeout"]
    ELSE [answer |-> "Selected", edit |-> "Selected"]

\* processCallback, "opt:<id>:<optionId>".  The buttons exist on the message
\* of a question request, one per option.
ProcessCallbackOpt(r, optionId) ==
    /\ Idle
    /\ r \in 1..(nextReq - 1)
    /\ r \in DOMAIN pendingRequests =>
           /\ pendingRequests[r].type = "question"
           /\ \E i \in DOMAIN pendingRequests[r].options :
                  pendingRequests[r].options[i] = optionId
    /\ IF optCallbackBranch(pendingRequests, r, now) \in {"not_found", "resolved"}
       THEN UNCHANGED <<pendingRequests, sessions, tasks, nextTask, tg,
                        resolveHist, picked>>
       ELSE IF optCallbackBranch(pendingRequests, r, now) = "timeout"
       THEN /\ LogPick(r, optionId)
            /\ UNCHANGED <<pendingRequests, sessions, tasks, nextTask, tg, resolveHist>>
       ELSE IF DOMAIN sessions # {}
       THEN LET target == getAllSessions(sessions)[1] IN
            /\ nextTask <= MaxTasks
            /\ tasks' = addKeystrokeTask(tasks, nextTask, target,
                                         optionKeystroke(optionId), r, now)
            /\ nextTask' = nextTask + 1
            /\ sessions' = touchSession(sessions, target, now)
            /\ pendingRequests' = resolveQuestionRequest(pendingRequests, r, optionId)
            /\ LogHuman(r, resolveQuestionGuard(pendingRequests, r), optionId)
            /\ LogPick(r, optionId)
            /\ UNCHANGED tg
       ELSE \* no session: await callApi("sendMessage") comes before the resolve
            /\ tg' = [kind |-> "opt", req |-> r, val |-> optionId]
            /\ UNCHANGED <<pendingRequests, sessions, tasks, nextTask,
                           resolveHist, picked>>
    /\ LogRefused(r, optCallbackBranch(pendingRequests, r, now))
    /\ LogLinked(r, optCallbackBranch(pendingRequests, r, now) = "accept"
                        /\ DOMAIN sessions # {})
    /\ UNCHANGED <<now, nextReq, sessionStates, outbox, nextMsg, nextSess,
                   timeoutSeen, pendingSeen, allowAllHits>>
    /\ UNCHANGED <<pendingTaskMessages, timers, mqVars, pickLog, ackNull, edgeVars,
                   pollVars>>

\* processReplyMessage with the resolved check left out (mutant).
replyBranchNoResolvedCheck(reqs, r) ==
    IF r = 0 THEN "ignore" ELSE "accept"

\* processReplyMessage: which of its returns the reply takes (r: the request
\* found by the message id, 0 when there is none).
replyBranch(reqs, r) ==
    IF r = 0 THEN "ignore"
    ELSE IF reqs[r].resolved THEN "resolved"
    ELSE "accept"

\* processReplyMessage: the text it sends back and the status text of
\* updateMessage for each return ("none": nothing is sent / edited).
replyOutput(branch) ==
    IF branch = "ignore" THEN [answer |-> "none", edit |-> "none"]
    ELSE IF branch = "resolved" THEN [answer |-> "Already handled", edit |-> "none"]
    ELSE [answer |-> "Received", edit |-> "Custom input"]

\* processReplyMessage: a reply to the message with id messageId.
ReplyHandler(messageId, text) ==
    LET r == getRequestByMessageId(pendingRequests, messageId)
        customText == sanitize(text)
        value == "__CUSTOM__:" \o customText
    IN
    /\ Idle
    /\ messageId \in 1..(nextMsg - 1)
    /\ IF replyBranch(pendingRequests, r) \in {"ignore", "resolved"}
       THEN UNCHANGED <<pendingRequests, sessions, tasks, nextTask, tg, resolveHist>>
       ELSE IF DOMAIN sessions # {}
       THEN LET target == getAllSessions(sessions)[1] IN
            /\ nextTask <= MaxTasks
            /\ tasks' = addKeystrokeTask(tasks, nextTask, target, customText, r, now)
            /\ nextTask' = nextTask + 1
            /\ sessions' = touchSession(sessions, target, now)
            /\ pendingRequests' = resolveQuestionRequest(pendingRequests, r, value)
            /\ LogHuman(r, resolveQuestionGuard(pendingRequests, r), value)
            /\ UNCHANGED tg
       ELSE /\ tg' = [kind |-> "reply", req |-> r, val |-> value]
            /\ UNCHANGED <<pendingRequests, sessions, tasks, nextTask, resolveHist>>
    /\ IF r = 0 THEN UNCHANGED refused
       ELSE LogRefused(r, replyBranch(pendingRequests, r))
    /\ LogLinked(r, replyBranch(pendingRequests, r) = "accept" /\ DOMAIN sessions # {})
    /\ UNCHANGED <<now, nextReq, sessionStates, outbox, nextMsg, nextSess,
                   timeoutSeen, pendingSeen, picked, allowAllHits>>
    /\ UNCHANGED <<pendingTaskMessages, timers, mqVars, pickLog, ackNull, edgeVars>>

\* The reply handled with pollUpdates at rest.
ProcessReply(messageId, text) == ReplyHandler(messageId, text) /\ UNCHANGED pollVars

\* What the handler h at its await does once sendMessage has returned: the
\* result of resolveQuestionRequest is not looked at, the message is edited and
\* the human is answered as on the accepting return.
resumeOutput(h) ==
    IF h.kind = "opt" THEN optCallbackOutput("accept") ELSE replyOutput("accept")

\* The awaited sendMessage returned: the handler goes on to resolve.
TgResumeHandler ==
    /\ tg.kind \in {"opt", "reply"}
    /\ pendingRequests' = resolveQuestionRequest(pendingRequests, tg.req, tg.val)
    /\ LogHuman(tg.req, resolveQuestionGuard(pendingRequests, tg.req), tg.val)
    /\ IF tg.kind = "opt" /\ resolveQuestionGuard(pendingRequests, tg.req)
       THEN LogPick(tg.req, tg.val) ELSE UNCHANGED picked
    /\ tg' = NoTg
    /\ UNCHANGED <<now, nextReq, sessionStates, outbox, nextMsg, queueVars,
                   timeoutSeen, pendingSeen, refused, allowAllHits>>
    /\ UNCHANGED handlerAux

TgResume == TgResumeHandler /\ UNCHANGED pollVars

\* The awaited sendMessage threw: the handler ends there (pollUpdates logs it).
TgFailHandler ==
    /\ tg.kind \in {"opt", "reply"}
    /\ tg' = NoTg
    /\ UNCHANGED <<now, storeVars, queueVars, histVars>>
    /\ UNCHANGED handlerAux

TgFail == TgFailHandler /\ UNCHANGED pollVars

\* ------------------------------------------- terminal sessions and tasks
\* processNewTaskMessage: a plain text from the human.  target is the session
\* named by an "@shortId " prefix, 0 when the text has none.
NewTaskHandler(text, target) ==
    /\ Idle
    /\ IF DOMAIN sessions = {}
       THEN UNCHANGED <<sessions, tasks, nextTask, pendingTaskMessages, nextMsg>>
       ELSE IF target # 0
       THEN IF getSession(sessions, target) = 0
            THEN UNCHANGED <<sessions, tasks, nextTask, pendingTaskMessages, nextMsg>>
            ELSE /\ nextTask <= MaxTasks
                 /\ tasks' = addTask(tasks, nextTask, target, text, now)
                 /\ nextTask' = nextTask + 1
                 /\ sessions' = touchSession(sessions, target, now)
                 /\ UNCHANGED <<pendingTaskMessages, nextMsg>>
       ELSE IF Cardinality(DOMAIN sessions) = 1
       THEN LET session == getAllSessions(sessions)[1] IN
            /\ nextTask <= MaxTasks
            /\ tasks' = addTask(tasks, nextTask, session, text, now)
            /\ nextTask' = nextTask + 1
            /\ sessions' = touchSession(sessions, session, now)
            /\ UNCHANGED <<pendingTaskMessages, nextMsg>>
       ELSE /\ nextMsg <= MaxMsgs
            /\ pendingTaskMessages' =
                   pendingTaskMessages @@ (nextMsg :> [text |-> trim(text), createdAt |-> now])
            /\ nextMsg' = nextMsg + 1
            /\ UNCHANGED <<sessions, tasks, nextTask>>
    /\ UNCHANGED <<now, pendingRequests, nextReq, sessionStates, outbox, nextSess,
                   timers, mqVars, pickLog, ackNull, edgeVars, linked, tg, histVars>>

\* The text handled with pollUpdates at rest.
ProcessNewTaskMessage(text, target) == NewTaskHandler(text, target) /\ UNCHANGED pollVars

\* processCallback (sess:) leaving the text in pendingTaskMessages (mutant).
takePendingTaskKept(msgs, originalMsgId) == msgs

\* processCallback (sess:): pendingTaskMessages.delete(originalMsgId).
takePendingTask(msgs, originalMsgId) ==
    Restrict(msgs, DOMAIN msgs \ {originalMsgId})

\* A direct call of addTaskToDefaultSession(message).
AddTaskToDefaultSession(message) ==
    /\ IF defaultSession(sessions) = 0
       THEN UNCHANGED <<sessions, tasks, nextTask>>
       ELSE /\ nextTask <= MaxTasks
            /\ tasks' = addTask(tasks, nextTask, defaultSession(sessions), message, now)
            /\ nextTask' = nextTask + 1
            /\ sessions' = touchSession(sessions, defaultSession(sessions), now)
    /\ UNCHANGED <<now, storeVars, nextSess, auxVars, tg, histVars>>

\* processCallback, "sess:<sessionId>:<originalMsgId>".
ProcessCallbackSess(sessionId, originalMsgId) ==
    /\ Idle
    /\ IF originalMsgId \notin DOMAIN pendingTaskMessages
          \/ getSession(sessions, sessionId) = 0
       THEN /\ UNCHANGED <<sessions, tasks, nextTask, pendingTaskMessages>>
            /\ pickLog' = IF pickLog[originalMsgId].enqueued > 0
                          THEN [pickLog EXCEPT ![originalMsgId].late = TRUE]
                          ELSE pickLog
       ELSE /\ nextTask <= MaxTasks
            /\ pickLog' = [pickLog EXCEPT ![originalMsgId].enqueued = @ + 1]
            /\ tasks' = addTask(tasks, nextTask, sessionId,
                                pendingTaskMessages[originalMsgId].text, now)
            /\ nextTask' = nextTask + 1
            /\ sessions' = touchSession(sessions, sessionId, now)
            /\ pendingTaskMessages' = takePendingTask(pendingTaskMessages, originalMsgId)
    /\ UNCHANGED <<now, storeVars, nextSess, timers, mqVars, ackNull, edgeVars, moreVars, tg, histVars>>

\* processCallback, "pty:" / "dyn:" / "qpty:": the keystroke of a button of a
\* terminal prompt notification goes to the most recently active session.
CallbackPtyHandler(keystroke) ==
    /\ Idle
    /\ IF DOMAIN sessions = {}
       THEN UNCHANGED <<sessions, tasks, nextTask>>
       ELSE LET target == getAllSessions(sessions)[1] IN
            /\ nextTask <= MaxTasks
            /\ tasks' = addKeystrokeTask(tasks, nextTask, target, keystroke, 0, now)
            /\ nextTask' = nextTask + 1
            /\ sessions' = touchSession(sessions, target, now)
    /\ UNCHANGED <<now, storeVars, nextSess, handlerAux, tg, histVars>>

\* The click handled with pollUpdates at rest.
ProcessCallbackPty(keystroke) == CallbackPtyHandler(keystroke) /\ UNCHANGED pollVars

\* POST /tasks/:id/ack: what the route does on the server.
AckEffect(taskId) ==
    /\ IF ackResponse(tasks, taskId).success
       THEN /\ Len(timers) < MaxAcks
            /\ tasks' = acknowledgeTask(tasks, taskId)
            /\ sessions' = touchSession(sessions, tasks[taskId].sessionId, now)
            /\ timers' = Append(timers, [task |-> taskId, due |-> now + CLEANUP_DELAY])
            /\ UNCHANGED ackNull
       ELSE /\ UNCHANGED <<tasks, sessions, timers>>
            /\ ackNull' = TRUE
    /\ UNCHANGED <<now, storeVars, nextSess, nextTask, pendingTaskMessages,
                   mqVars, pickLog, tg, histVars>>

\* POST /tasks/:id/ack
HandleAck(taskId) == AckEffect(taskId) /\ UNCHANGED <<edgeVars, moreVars>>

\* ------------------------------------------------- the terminal's wrapper
\* sendKeystroke: the names that isSpecialKey matches, in lower case (the
\* pattern has the i flag) ...
SpecialKeys == {"tab", "enter", "escape", "space", "bspace", "up", "down", "left",
                "right", "home", "end", "pageup", "pagedown"}

\* ... and the lower-case form of the keys of the alphabet.
lower(key) ==
    IF key \in {"Tab", "TAB"} THEN "tab"
    ELSE IF key \in {"Enter", "ENTER"} THEN "enter"
    ELSE IF key = "Escape" THEN "escape"
    ELSE key

isNumericKeystroke(keystroke) == keystroke \in Digits
isSpecialKey(keystroke) == lower(keystroke) \in SpecialKeys

\* sendKeystroke sending every key as literal text (mutant).
sendKeystrokeAllLiteral(keystroke, step) ==
    << [key |-> keystroke, literal |-> TRUE, step |-> step, part |-> "key"],
       [key |-> "Enter", literal |-> FALSE, step |-> step, part |-> "submit"] >>

\* sendKeystroke: the tmux send-keys commands it runs for one key when none
\* fails.  A single digit or a key name goes as it is; anything else goes as
\* literal text (-l) followed by Enter.  step: the position of the key in its
\* list.
sendKeystroke(keystroke, step) ==
    IF isNumericKeystroke(keystroke) \/ isSpecialKey(keystroke)
    THEN << [key |-> keystroke, literal |-> FALSE, step |-> step, part |-> "key"] >>
    ELSE << [key |-> keystroke, literal |-> TRUE, step |-> step, part |-> "key"],
            [key |-> "Enter", literal |-> FALSE, step |-> step, part |-> "submit"] >>

\* injectTask, sequence branch: the commands of the keys from position step on.
RECURSIVE sequenceCommands(_, _)
sequenceCommands(keys, step) ==
    IF step > Len(keys) THEN <<>>
    ELSE sendKeystroke(keys[step], step) \o sequenceCommands(keys, step + 1)

\* injectTask: the commands of a task when none fails.
injectCommands(task) ==
    IF task.type = "sequence" THEN sequenceCommands(task.sequence, 1)
    ELSE IF task.type = "keystroke" THEN sendKeystroke(task.message, 1)
    ELSE << [key |-> task.message, literal |-> TRUE, step |-> 1, part |-> "key"],
            [key |-> "Enter", literal |-> FALSE, step |-> 1, part |-> "submit"] >>

\* injectTask: its result after the commands in sent were run ("running": it
\* has more to run).  The first command that exits non-zero ends it.
injectResult(task, sent) ==
    IF sent # <<>> /\ ~sent[Len(sent)].ok THEN "failure"
    ELSE IF Len(sent) = Len(injectCommands(task)) THEN "success"
    ELSE "running"

\* startTaskPolling: fetchPendingTasks.  A session the server does not know
\* gives 404, which the wrapper reads as no task.
FetchPendingTasks(sessionId) ==
    /\ wrapper.batch = <<>>
    /\ wrapper.session \in {0, sessionId}
    /\ LET ids == IF getSession(sessions, sessionId) = 0 THEN <<>>
                  ELSE getPendingTasks(tasks, sessionId)
       IN  wrapper' = [wrapper EXCEPT
                          !.session = sessionId,
                          !.sent = <<>>,
                          !.fetchedAt = now,
                          !.steady = @ /\ now - wrapper.fetchedAt <= 1,
                          !.batch = [i \in DOMAIN ids |->
                                        [id |-> ids[i], type |-> tasks[ids[i]].type,
                                         message |-> tasks[ids[i]].message,
                                         sequence |-> tasks[ids[i]].sequence]]]
    /\ UNCHANGED <<now, storeVars, queueVars, pendingTaskMessages, timers, mqVars,
                   pickLog, ackNull, crossCall, mqRefused, sweptWithTasks, moreVars, tg,
                   histVars>>

\* injectTask: the next tmux send-keys command of the task at hand has exited,
\* with code 0 (ok) or not.
InjectStep(ok) ==
    /\ wrapper.batch # <<>>
    /\ injectResult(wrapper.batch[1], wrapper.sent) = "running"
    /\ LET command == injectCommands(wrapper.batch[1])[Len(wrapper.sent) + 1] IN
       wrapper' = [wrapper EXCEPT
                      !.sent = Append(@, [key |-> command.key, literal |-> command.literal,
                                          step |-> command.step, part |-> command.part,
                                          ok |-> ok]),
                      !.injections[wrapper.batch[1].id] =
                          IF wrapper.sent = <<>> /\ @ < MaxHits THEN @ + 1 ELSE @]
    /\ UNCHANGED <<now, storeVars, queueVars, pendingTaskMessages, timers, mqVars,
                   pickLog, ackNull, crossCall, mqRefused, sweptWithTasks, moreVars, tg,
                   histVars>>

\* startTaskPolling: acknowledgeTask(task.id, result) once injectTask has
\* returned, then the next task of the batch.  delivered: the POST reached the
\* server (a failed fetch is ignored).
WrapperAcknowledge(delivered) ==
    /\ wrapper.batch # <<>>
    /\ injectResult(wrapper.batch[1], wrapper.sent) # "running"
    /\ wrapper' = [wrapper EXCEPT
                      !.batch = Tail(@),
                      !.sent = <<>>,
                      !.lastAck = [task |-> wrapper.batch[1],
                                   success |-> injectResult(wrapper.batch[1],
                                                            wrapper.sent) = "success",
                                   sent |-> wrapper.sent]]
    /\ IF delivered
       THEN AckEffect(wrapper.batch[1].id)
       ELSE UNCHANGED <<now, storeVars, queueVars, pendingTaskMessages, timers, mqVars,
                        pickLog, ackNull, tg, histVars>>
    /\ UNCHANGED <<crossCall, mqRefused, sweptWithTasks, moreVars>>

\* A timer set by acknowledgeTask fires: tasks.delete(taskId).
TimerFire(i) ==
    /\ i \in DOMAIN timers
    /\ now >= timers[i].due
    /\ tasks' = Restrict(tasks, DOMAIN tasks \ {timers[i].task})
    /\ timers' = RemoveAt(timers, i)
    /\ UNCHANGED <<now, storeVars, sessions, nextSess, nextTask,
                   pendingTaskMessages, mqVars, pickLog, ackNull, edgeVars, moreVars, tg, histVars>>

\* --------------------------------------------------- multi-step selection
\* POST /multi-question-notify -> sendMultiQuestionNotification, up to its await.
HandleMultiQuestionNotify(sessionId, questions) ==
    /\ nextNotif <= MaxNotifs
    /\ multiQuestionStates' =
           multiQuestionStates @@
               (nextNotif :> [sessionId |-> sessionId, questions |-> questions,
                              currentIndex |-> 0, answers |-> <<>>,
                              messageId |-> 0, createdAt |-> now])
    /\ nextNotif' = nextNotif + 1
    /\ mqLog' = [mqLog EXCEPT ![nextNotif].total = Len(questions)]
    /\ UNCHANGED <<now, storeVars, queueVars, pendingTaskMessages, timers,
                   pickLog, ackNull, edgeVars, moreVars, tg, histVars>>

\* sendMultiQuestionNotification after the await: the message with the
\* keyboard is out.  The state object takes the id even when the sweep has
\* dropped it from the Map meanwhile.
MqSendDelivered(n) ==
    /\ n \in DOMAIN multiQuestionStates
    /\ multiQuestionStates[n].messageId = 0
    /\ multiQuestionStates' = [multiQuestionStates EXCEPT ![n].messageId = nextMsg]
    /\ nextMsg' = nextMsg + 1
    /\ UNCHANGED <<now, pendingRequests, nextReq, sessionStates, outbox, queueVars,
                   pendingTaskMessages, timers, nextNotif, mqLog, pickLog, ackNull, edgeVars, moreVars,
                   tg, histVars>>

\* isLastQuestion with the comparison off by one (mutant).
isLastQuestionOffByOne(state) == state.currentIndex >= Len(state.questions)

\* handleMultiQuestionCallback: isLastQuestion.
isLastQuestion(state) == state.currentIndex >= Len(state.questions) - 1

\* handleMultiQuestionCallback: the label recorded for the chosen option.
optionLabel(state, optionId) ==
    LET options == state.questions[state.currentIndex + 1]
        hits == {i \in DOMAIN options : options[i].id = optionId}
    IN  IF hits = {} THEN optionId
        ELSE options[CHOOSE i \in hits : \A j \in hits : i <= j].label

\* handleMultiQuestionCallback: the keystrokes it enqueues.
mqSequence(state, optionId) ==
    IF isLastQuestion(state) THEN <<optionId, "Tab", "Enter">> ELSE <<optionId, "Tab">>

\* handleMultiQuestionCallback reporting a missing terminal session before it
\* looks for the selection state (mutant).
mqCallbackBranchSessionFirst(states, sess, n) ==
    IF DOMAIN sess = {} THEN "no_session"
    ELSE IF n \notin DOMAIN states THEN "expired"
    ELSE "accept"

\* handleMultiQuestionCallback reporting a missing terminal session as an
\* expired selection (mutant).
mqCallbackBranchExpiredOnly(states, sess, n) ==
    IF n \notin DOMAIN states \/ DOMAIN sess = {} THEN "expired" ELSE "accept"

\* handleMultiQuestionCallback: which of its returns the choice takes.
mqCallbackBranch(states, sess, n) ==
    IF n \notin DOMAIN states THEN "expired"
    ELSE IF DOMAIN sess = {} THEN "no_session"
    ELSE "accept"

\* handleMultiQuestionCallback: the text of its answerCallbackQuery (the code's
\* Chinese texts are given in English).
mqCallbackOutput(branch) ==
    IF branch = "expired" THEN [answer |-> "Selection expired"]
    ELSE IF branch = "no_session" THEN [answer |-> "No active terminal session"]
    ELSE [answer |-> "Selected"]

\* processCallback, "mq:<notificationId>:<optionId>" -> handleMultiQuestionCallback.
\* The button exists once the message is out.
MultiQuestionCallbackHandler(n, optionId) ==
    /\ Idle
    /\ n \in 1..(nextNotif - 1)
    /\ n \in DOMAIN multiQuestionStates => multiQuestionStates[n].messageId # 0
    /\ IF mqCallbackBranch(multiQuestionStates, sessions, n) # "accept"
       THEN /\ mqRefused' = [mqRefused EXCEPT ![n] =
                    @ \cup {mqCallbackBranch(multiQuestionStates, sessions, n)}]
            /\ UNCHANGED <<sessions, tasks, nextTask, multiQuestionStates, mqLog, tg>>
       ELSE LET state == multiQuestionStates[n]
                target == getAllSessions(sessions)[1]
                keys == mqSequence(state, optionId)
            IN
            /\ nextTask <= MaxTasks
            /\ tasks' = addSequenceTask(tasks, nextTask, target, keys, 0, now)
            /\ nextTask' = nextTask + 1
            /\ sessions' = touchSession(sessions, target, now)
            /\ mqLog' = [mqLog EXCEPT ![n].lens = Append(@, Len(keys))]
            /\ UNCHANGED mqRefused
            /\ IF isLastQuestion(state)
               THEN \* await editMessageText comes before the delete
                    /\ multiQuestionStates' =
                           [multiQuestionStates EXCEPT
                               ![n].answers = Append(@, optionLabel(state, optionId))]
                    /\ tg' = [kind |-> "mq", req |-> n, val |-> optionId]
               ELSE /\ multiQuestionStates' =
                           [multiQuestionStates EXCEPT
                               ![n].answers = Append(@, optionLabel(state, optionId)),
                               ![n].currentIndex = @ + 1]
                    /\ UNCHANGED tg
    /\ UNCHANGED <<now, storeVars, nextSess, pendingTaskMessages, timers,
                   nextNotif, pickLog, ackNull, crossCall, wrapper, sweptWithTasks, linked,
                   histVars>>

\* The choice handled with pollUpdates at rest.
HandleMultiQuestionCallback(n, optionId) ==
    MultiQuestionCallbackHandler(n, optionId) /\ UNCHANGED pollVars

\* handleMultiQuestionCallback after the await of the last choice (the edit
\* returned or threw, the error is swallowed): multiQuestionStates.delete.
MqFinish ==
    /\ tg.kind = "mq"
    /\ multiQuestionStates' =
           Restrict(multiQuestionStates, DOMAIN multiQuestionStates \ {tg.req})
    /\ tg' = NoTg
    /\ UNCHANGED <<now, storeVars, queueVars, pendingTaskMessages, timers,
                   nextNotif, mqLog, pickLog, ackNull, edgeVars, moreVars, histVars>>

\* ---------------------------------------------------------- specification
\* The decision rendezvous: intake, poll, cancel, human actions, sweep, time.
\* No terminal session registers here, so an option click or a reply takes the
\* handler's path that awaits sendMessage before it resolves the request.
Next ==
    \/ \E s \in SourceSessions, ty \in {"none", "question"}, qa \in BOOLEAN,
          o \in OptionLists : HandleAuthorize(s, ty, qa, o)
    \/ \E r \in ReqIds : SendDelivered(r)
    \/ \E r \in ReqIds : SendFailed(r)
    \/ \E r \in ReqIds : HandlePoll(r)
    \/ \E r \in ReqIds : HandleCancel(r)
    \/ CleanupInterval
    \/ Tick
    \/ \E a \in {"allow", "deny", "allowall"}, r \in ReqIds : ProcessCallbackAuth(a, r)
    \/ \E r \in ReqIds, o \in {"A", "B"} : ProcessCallbackOpt(r, o)
    \/ \E m \in 1..MaxRequests, t \in Texts : ProcessReply(m, t)
    \/ TgResume
    \/ TgFail

Spec == Init /\ [][Next]_vars

\* The rendezvous with a terminal session at hand: a click or a reply that is
\* accepted also enqueues its keystroke for the terminal.
NextAnswer ==
    \/ (nextSess <= MaxSessions /\ HandleRegister)
    \/ \E s \in SourceSessions, ty \in {"none", "question"}, qa \in BOOLEAN,
          o \in OptionLists : HandleAuthorize(s, ty, qa, o)
    \/ \E r \in ReqIds : SendDelivered(r)
    \/ \E r \in ReqIds : SendFailed(r)
    \/ \E r \in ReqIds : HandlePoll(r)
    \/ \E r \in ReqIds : HandleCancel(r)
    \/ CleanupInterval
    \/ Tick
    \/ \E a \in {"allow", "deny", "allowall"}, r \in ReqIds : ProcessCallbackAuth(a, r)
    \/ \E r \in ReqIds, o \in {"A", "B"} : ProcessCallbackOpt(r, o)
    \/ \E m \in 1..MaxRequests, t \in Texts : ProcessReply(m, t)
    \/ TgResume
    \/ TgFail

SpecAnswer == Init /\ [][NextAnswer]_vars

\* Intakes that follow one another: a first request, the human's click on it
\* (which may set allow-all for the source session), then a second intake
\* from the same source session.  The human acts on the first request.
NextIntake ==
    \/ \E s \in SourceSessions, ty \in {"none", "question"}, qa \in BOOLEAN,
          o \in OptionLists : AuthorizeUpTo(MaxIntakes, s, ty, qa, o)
    \/ \E r \in 1..MaxIntakes : SendDelivered(r)
    \/ \E r \in 1..MaxIntakes : SendFailed(r)
    \/ \E r \in ReqIds : HandlePoll(r)
    \/ \E a \in {"allow", "deny", "allowall"}, r \in ReqIds : ProcessCallbackAuth(a, r)
    \/ CleanupInterval
    \/ Tick

SpecIntake == Init /\ [][NextIntake]_vars

\* The request store on its own: its exported operations called in any order
\* by any caller (a button handler, a reply handler, the poll's auto-deny, or
\* a caller the server does not have yet, as for cleanupSession).
ResolveAuthCall(r, decision) ==
    /\ r \in 1..(nextReq - 1)
    /\ pendingRequests' = resolveAuthRequest(pendingRequests, r, decision)
    /\ LogResolve(r, resolveAuthGuard(pendingRequests, r), decision)
    /\ LogCross(r, "authorization")
    /\ UNCHANGED <<now, nextReq, sessionStates, outbox, nextMsg, queueVars,
                   pendingTaskMessages, timers, mqVars, pickLog, ackNull, mqRefused,
                   wrapper, sweptWithTasks, moreVars, tg, timeoutSeen, pendingSeen, refused,
                   humanRes, picked,
                   allowAllHits>>

ResolveQuestionCall(r, selectedOption) ==
    /\ r \in 1..(nextReq - 1)
    /\ pendingRequests' = resolveQuestionRequest(pendingRequests, r, selectedOption)
    /\ LogResolve(r, resolveQuestionGuard(pendingRequests, r), selectedOption)
    /\ LogCross(r, "question")
    /\ UNCHANGED <<now, nextReq, sessionStates, outbox, nextMsg, queueVars,
                   pendingTaskMessages, timers, mqVars, pickLog, ackNull, mqRefused,
                   wrapper, sweptWithTasks, moreVars, tg, timeoutSeen, pendingSeen, refused,
                   humanRes, picked,
                   allowAllHits>>

\* A direct call of createAuthRequest / createQuestionRequest: the request is
\* created whatever the state of its source session.
CreateAuthRequestCall(sessionId) ==
    /\ nextReq <= MaxRequests
    /\ pendingRequests' = createAuthRequest(pendingRequests, nextReq, sessionId, now)
    /\ nextReq' = nextReq + 1
    /\ UNCHANGED <<now, sessionStates, outbox, nextMsg, queueVars, tg, histVars>>
    /\ UNCHANGED auxVars

CreateQuestionRequestCall(sessionId, options) ==
    /\ nextReq <= MaxRequests
    /\ pendingRequests' =
           createQuestionRequest(pendingRequests, nextReq, sessionId, options, now)
    /\ nextReq' = nextReq + 1
    /\ UNCHANGED <<now, sessionStates, outbox, nextMsg, queueVars, tg, histVars>>
    /\ UNCHANGED auxVars

\* A direct call of getSessionState(sessionId).
GetSessionStateCall(sessionId) ==
    /\ sessionStates' = getSessionState(sessionStates, sessionId, now)
    /\ UNCHANGED <<now, pendingRequests, nextReq, outbox, nextMsg, queueVars, tg,
                   histVars>>
    /\ UNCHANGED auxVars

\* A direct call of setSessionAllowAll(sessionId).
SetSessionAllowAllCall(sessionId) ==
    /\ sessionStates' = setSessionAllowAll(sessionStates, sessionId, now)
    /\ UNCHANGED <<now, pendingRequests, nextReq, outbox, nextMsg, queueVars, tg,
                   histVars>>
    /\ UNCHANGED auxVars

\* A direct call of cleanupSession(sessionId).  The histories of the deleted
\* requests go back to their initial values, as in the sweep.
CleanupSessionCall(sessionId) ==
    /\ sessionStates' = cleanupSessionState(sessionStates, sessionId)
    /\ pendingRequests' = cleanupSessionRequests(pendingRequests, sessionId)
    /\ LET kept == DOMAIN cleanupSessionRequests(pendingRequests, sessionId) IN
       /\ resolveOk' = KeepHist(resolveOk, kept, 0)
       /\ firstWin' = KeepHist(firstWin, kept, "none")
       /\ lateCall' = KeepHist(lateCall, kept, FALSE)
       /\ timeoutSeen' = KeepHist(timeoutSeen, kept, FALSE)
       /\ pendingSeen' = KeepHist(pendingSeen, kept, FALSE)
       /\ refused' = KeepHist(refused, kept, FALSE)
       /\ humanRes' = KeepHist(humanRes, kept, "none")
       /\ picked' = KeepHist(picked, kept, "none")
       /\ crossCall' = KeepHist(crossCall, kept, FALSE)
       /\ linked' = KeepHist(linked, kept, 0)
    /\ UNCHANGED <<now, nextReq, outbox, nextMsg, queueVars, pendingTaskMessages,
                   timers, mqVars, pickLog, ackNull, mqRefused, wrapper,
                   sweptWithTasks, pollVars, tg, allowAllHits>>

NextStore ==
    \/ \E s \in SourceSessions, ty \in {"none", "question"}, qa \in BOOLEAN,
          o \in OptionLists : HandleAuthorize(s, ty, qa, o)
    \/ \E s \in SourceSessions : CreateAuthRequestCall(s)
    \/ \E s \in SourceSessions, o \in OptionLists : CreateQuestionRequestCall(s, o)
    \/ \E r \in ReqIds : SendDelivered(r)
    \/ \E r \in ReqIds : SendFailed(r)
    \/ \E s \in SourceSessions : GetSessionStateCall(s)
    \/ \E s \in SourceSessions : SetSessionAllowAllCall(s)
    \/ \E s \in SourceSessions : CleanupSessionCall(s)
    \/ \E r \in ReqIds, d \in {"allow", "deny"} : ResolveAuthCall(r, d)
    \/ \E r \in ReqIds, o \in {"A", "B"} : ResolveQuestionCall(r, o)
    \/ \E r \in ReqIds : HandleCancel(r)
    \/ CleanupInterval
    \/ Tick

SpecStore == Init /\ [][NextStore]_vars

\* Terminal sessions, their task queues and the multi-step selection flow.
NextQueue ==
    \/ (nextSess <= MaxSessions /\ HandleRegister)
    \/ \E s \in 1..MaxSessions : HandleUnregister(s)
    \/ \E t \in Texts, s \in 0..MaxSessions : ProcessNewTaskMessage(t, s)
    \/ \E s \in 1..MaxSessions, m \in 1..MaxMsgs : ProcessCallbackSess(s, m)
    \/ \E k \in Keystrokes : ProcessCallbackPty(k)
    \/ \E t \in DOMAIN tasks : Len(timers) < MaxTimers /\ HandleAck(t)
    \/ \E i \in 1..MaxTimers : TimerFire(i)
    \/ \E s \in SourceSessions, q \in QuestionLists : HandleMultiQuestionNotify(s, q)
    \/ \E n \in NotifIds : MqSendDelivered(n)
    \/ \E n \in NotifIds, o \in MqOptionIds :
           /\ mqCallbackBranch(multiQuestionStates, sessions, n) = "accept"
           /\ HandleMultiQuestionCallback(n, o)
    \/ MqFinish
    \/ CleanupInterval
    \/ Tick

SpecQueue == Init /\ [][NextQueue]_vars

\* The multi-step selection flow on its own, with the choices that the handler
\* turns down: a choice for a state that is gone, a choice while no terminal
\* session is registered.  (In SpecQueue such a choice changes nothing of the
\* program's state; there only the accepted choices are taken.)
NextMulti ==
    \/ (nextSess <= MaxSessions /\ HandleRegister)
    \/ \E s \in 1..MaxSessions : HandleUnregister(s)
    \/ \E s \in SourceSessions, q \in QuestionLists : HandleMultiQuestionNotify(s, q)
    \/ \E n \in NotifIds : MqSendDelivered(n)
    \/ \E n \in NotifIds, o \in MqOptionIds : HandleMultiQuestionCallback(n, o)
    \/ MqFinish
    \/ CleanupInterval
    \/ Tick

SpecMulti == Init /\ [][NextMulti]_vars

\* Human actions that inject keys, with two terminals at hand: option clicks
\* and replies on question requests of either source session, clicks on a
\* prompt notification, multi-step choices; an acknowledgement makes an older
\* session the most recently active one.  The questions come once a terminal
\* is registered.
NextInject ==
    \/ HandleRegister
    \/ \E s \in InjectSources, o \in InjectOptionLists :
           DOMAIN sessions # {} /\ HandleAuthorize(s, "question", TRUE, o)
    \/ \E r \in ReqIds : SendDelivered(r)
    \/ \E r \in ReqIds, o \in InjectOptionIds :
           DOMAIN sessions # {} /\ nextTask <= MaxQueued /\ ProcessCallbackOpt(r, o)
    \/ \E m \in 1..MaxRequests, t \in Texts :
           DOMAIN sessions # {} /\ nextTask <= MaxQueued /\ ProcessReply(m, t)
    \/ \E k \in Keystrokes :
           DOMAIN sessions # {} /\ nextTask <= MaxQueued /\ ProcessCallbackPty(k)
    \/ \E s \in SourceSessions, q \in QuestionLists :
           DOMAIN sessions # {} /\ Len(q) = 1 /\ HandleMultiQuestionNotify(s, q)
    \/ \E n \in NotifIds : MqSendDelivered(n)
    \/ \E n \in NotifIds, o \in Keystrokes :
           /\ mqCallbackBranch(multiQuestionStates, sessions, n) = "accept"
           /\ nextTask <= MaxQueued
           /\ HandleMultiQuestionCallback(n, o)
    \/ MqFinish
    \/ \E t \in 1..MaxQueued : Len(timers) < MaxTimers /\ HandleAck(t)
    \/ TickUpTo(MaxClock)

SpecInject == Init /\ [][NextInject]_vars

\* The wrapper of the one terminal: multi-step choices and prompt clicks
\* enqueue sequence and keystroke tasks, the wrapper's loop fetches them,
\* runs their tmux commands one by one, any of which may fail, and
\* acknowledges each task with the result.
NextWrapper ==
    \/ (nextSess <= MaxSessions /\ HandleRegister)
    \/ \E k \in Keystrokes : nextTask <= MaxQueued /\ ProcessCallbackPty(k)
    \/ \E s \in SourceSessions, q \in QuestionLists : HandleMultiQuestionNotify(s, q)
    \/ \E n \in NotifIds : MqSendDelivered(n)
    \/ \E n \in NotifIds, o \in WrapperOptionIds :
           /\ mqCallbackBranch(multiQuestionStates, sessions, n) = "accept"
           /\ nextTask <= MaxQueued
           /\ HandleMultiQuestionCallback(n, o)
    \/ MqFinish
    \/ \E s \in 1..MaxSessions : FetchPendingTasks(s)
    \/ \E ok \in BOOLEAN : InjectStep(ok)
    \/ \E delivered \in BOOLEAN : WrapperAcknowledge(delivered)

SpecWrapper == Init /\ [][NextWrapper]_vars

\* The long run of the session registry: terminals register and human actions
\* enqueue during the first MaxBirth time units; acknowledgements,
\* unregistrations, the 60 s sweep and the clock go on, far enough for the
\* one-hour threshold of inactive sessions.
NextExpire ==
    \/ (now <= MaxBirth /\ HandleRegister)
    \/ \E s \in 1..MaxTerminals : HandleUnregister(s)
    \/ \E k \in Keystrokes :
           now <= MaxBirth /\ nextTask <= MaxQueued /\ ProcessCallbackPty(k)
    \/ \E t \in Texts, s \in 0..MaxTerminals :
           now <= MaxBirth /\ nextTask <= MaxQueued /\ ProcessNewTaskMessage(t, s)
    \/ \E s \in 1..MaxTerminals, m \in 1..MaxMsgs :
           now <= MaxBirth /\ nextTask <= MaxQueued /\ ProcessCallbackSess(s, m)
    \/ \E t \in 1..MaxQueued : Len(timers) < MaxTimers /\ HandleAck(t)
    \/ \E i \in 1..MaxTimers : TimerFire(i)
    \/ CleanupInterval
    \/ TickUpTo(MaxSweepClock)

SpecExpire == Init /\ [][NextExpire]_vars

\* The long run of everything the sweep deletes: callers create requests,
\* allow-all entries, tasks and selection states during the first MaxBirth
\* time units and nobody polls, cancels or unregisters, under the fairness that the server's
\* scheduling gives: setInterval fires the sweep as long as the server runs
\* and time advances (weak fairness of both); a deferred deletion is a timer
\* too.
NextSweep ==
    \/ (now <= MaxBirth /\ nextSess <= MaxSessions /\ HandleRegister)
    \/ \E s \in SourceSessions, ty \in {"none", "question"}, qa \in BOOLEAN,
           o \in OptionLists : now <= MaxBirth /\ HandleAuthorize(s, ty, qa, o)
    \/ \E r \in ReqIds : now <= MaxBirth /\ ProcessCallbackAuth("allowall", r)
    \/ \E k \in Keystrokes :
           now <= MaxBirth /\ nextTask <= MaxSessions /\ ProcessCallbackPty(k)
    \/ \E t \in 1..MaxSessions : Len(timers) < MaxTimers /\ HandleAck(t)
    \/ \E i \in 1..MaxTimers : TimerFire(i)
    \/ \E s \in SourceSessions, q \in QuestionLists :
           now <= MaxBirth /\ HandleMultiQuestionNotify(s, q)
    \/ CleanupInterval
    \/ TickUpTo(MaxSweepClock)

SpecSweep ==
    /\ Init /\ [][NextSweep]_vars
    /\ WF_vars(CleanupInterval)
    /\ WF_vars(TickUpTo(MaxSweepClock))

\* The long run of one terminal whose wrapper goes on polling: the session
\* registers at the start, its wrapper fetches, injects and acknowledges, the
\* human presses a button of a prompt notification now and then, the 60 s
\* sweep and the clock go on past the one-hour threshold.
NextPolling ==
    \/ (now <= MaxBirth /\ nextSess <= MaxSessions /\ HandleRegister)
    \/ \E s \in 1..MaxSessions : s < nextSess /\ FetchPendingTasks(s)
    \/ \E ok \in BOOLEAN : InjectStep(ok)
    \/ \E delivered \in BOOLEAN : WrapperAcknowledge(delivered)
    \/ \E k \in Keystrokes : nextTask <= MaxSessions /\ ProcessCallbackPty(k)
    \/ \E i \in 1..MaxTimers : TimerFire(i)
    \/ CleanupInterval
    \/ TickUpTo(MaxSweepClock)

SpecPolling == Init /\ [][NextPolling]_vars

\* The texts a human may send as a reply to a question: a sentence, one
\* digit, the name of a key.
ReplyTexts == {" hi ", "2", "Enter"}

\* A reply to a question on its way to the terminal: the question is sent,
\* the human replies with a text, the wrapper of the registered session
\* fetches the task and injects it.
NextReply ==
    \/ (nextSess <= MaxSessions /\ HandleRegister)
    \/ \E s \in SourceSessions, o \in OptionLists : HandleAuthorize(s, "question", TRUE, o)
    \/ \E r \in ReqIds : SendDelivered(r)
    \/ \E m \in 1..MaxRequests, t \in ReplyTexts : ProcessReply(m, t)
    \/ TgResume
    \/ TgFail
    \/ \E s \in 1..MaxSessions : s < nextSess /\ FetchPendingTasks(s)
    \/ \E ok \in BOOLEAN : InjectStep(ok)
    \/ \E delivered \in BOOLEAN : WrapperAcknowledge(delivered)
    \/ Tick

SpecReply == Init /\ [][NextReply]_vars

\* ------------------------------------------------------------ pollUpdates
\* The chat of the configuration (TELEGRAM_CHAT_ID, a string of the
\* environment) and the chats that an update may come from.
CHAT_ID == "7"
ChatIds == {7, 8}

\* String(chat.id), for the ids of ChatIds.
String(n) == <<"0", "1", "2", "3", "4", "5", "6", "7", "8", "9">>[n + 1]

\* The chat check that lets every update through (mutant).
chatAuthorizedAny(chatId) == TRUE

\* The check that processCallback, processReplyMessage and
\* processNewTaskMessage begin with: String(chat.id) !== CHAT_ID returns.
chatAuthorized(chatId) == String(chatId) = CHAT_ID

\* The updates a human may cause: a click on a button of a terminal prompt
\* notification, a click on "allow all" of the authorization request ref, a
\* plain text, a reply to the message ref.
Updates ==
    {[kind |-> "pty", chat |-> c, ref |-> 0, text |-> k] :
         c \in ChatIds, k \in Keystrokes}
    \cup {[kind |-> "allowall", chat |-> c, ref |-> r, text |-> ""] :
         c \in ChatIds, r \in ReqIds}
    \cup {[kind |-> "text", chat |-> c, ref |-> 0, text |-> t] :
         c \in ChatIds, t \in Texts}
    \cup {[kind |-> "reply", chat |-> c, ref |-> m, text |-> t] :
         c \in ChatIds, m \in 1..MaxRequests, t \in Texts}

\* The same with the choices of a multi-step selection ("mq:<ref>:<option>").
GateUpdates ==
    Updates \cup {[kind |-> "mq", chat |-> c, ref |-> n, text |-> o] :
                     c \in ChatIds, n \in NotifIds, o \in MqOptionIds}

\* Telegram's getUpdates: the update_ids from offset on, in order (an offset
\* below the first update_id gives them all).
getUpdates(updates, offset) ==
    LET first == IF offset < 1 THEN 1 ELSE offset IN
    [i \in 1..(Len(updates) + 1 - first) |-> first + i - 1]

\* pollUpdates asking again for the update it handled last (mutant).
updatesOffsetInclusive(last) == last

\* pollUpdates: offset: lastUpdateId + 1.
updatesOffset(last) == last + 1

\* Whether the handler of update, once it has made its changes, awaits a
\* Telegram call that can throw out of pollUpdates' loop: an await of
\* callApi("sendMessage") outside any try (updateMessage and
\* answerCallbackQuery swallow their errors).  The reply that finds no
\* terminal session awaits before it resolves: see HandlerResumes, HandlerFails.
handlerMayThrow(update, sess, reqs) ==
    /\ chatAuthorized(update.chat)
    /\ CASE update.kind = "pty" -> DOMAIN sess = {}
         [] update.kind = "text" -> TRUE
         [] update.kind = "reply" ->
                LET r == getRequestByMessageId(reqs, update.ref) IN
                \/ replyBranch(reqs, r) = "resolved"
                \/ replyBranch(reqs, r) = "accept" /\ DOMAIN sess # {}
         [] OTHER -> FALSE

\* A human of some chat clicks or writes: Telegram queues the update for the
\* bot.  A button or a message to reply to exists once its request was sent.
TelegramReceives(update) ==
    /\ Len(telegram) < MaxUpdates
    /\ update.kind = "allowall" =>
           /\ update.ref \in 1..(nextReq - 1)
           /\ update.ref \in DOMAIN pendingRequests
           /\ pendingRequests[update.ref].type = "authorization"
           /\ pendingRequests[update.ref].messageId # 0
    /\ update.kind = "reply" => update.ref \in 1..(nextMsg - 1)
    /\ update.kind = "mq" =>
           /\ update.ref \in DOMAIN multiQuestionStates
           /\ multiQuestionStates[update.ref].messageId # 0
    /\ telegram' = Append(telegram, update)
    /\ UNCHANGED <<now, storeVars, queueVars, handlerAux, poller, dispatched, tg,
                   histVars>>

\* The loop of pollUpdates is at rest or between two updates: no handler is
\* awaiting.
LoopRuns == Idle /\ ~poller.awaiting

\* pollUpdates: getUpdates returned a batch (an empty answer or a failed call
\* changes nothing).
PollUpdates ==
    /\ LoopRuns
    /\ poller.batch = <<>>
    /\ getUpdates(telegram, updatesOffset(poller.lastUpdateId)) # <<>>
    /\ poller' = [poller EXCEPT
                     !.batch = getUpdates(telegram, updatesOffset(poller.lastUpdateId))]
    /\ UNCHANGED <<now, storeVars, queueVars, handlerAux, telegram, dispatched, tg,
                   histVars>>

\* pollUpdates, one turn of its for loop up to the handler's await:
\* lastUpdateId is set and the update is handed to its handler, which makes
\* its changes; the handler that then awaits a call that may throw is left
\* awaiting (HandlerReturns, HandlerThrows).
DispatchUpdate ==
    /\ LoopRuns
    /\ poller.batch # <<>>
    /\ LET updateId == Head(poller.batch)
           update == telegram[updateId]
       IN
       /\ poller' = [poller EXCEPT
                        !.lastUpdateId = updateId,
                        !.batch = Tail(poller.batch),
                        !.awaiting = handlerMayThrow(update, sessions, pendingRequests)]
       /\ dispatched' = [dispatched EXCEPT
                            ![updateId] = IF @ < MaxHits THEN @ + 1 ELSE @]
       /\ UNCHANGED telegram
       /\ IF ~chatAuthorized(update.chat)
          THEN UNCHANGED <<now, storeVars, queueVars, handlerAux, tg, histVars>>
          ELSE CASE update.kind = "pty" -> CallbackPtyHandler(update.text)
                 [] update.kind = "allowall" ->
                        CallbackAuthHandler("allowall", update.ref)
                 [] update.kind = "text" -> NewTaskHandler(update.text, 0)
                 [] update.kind = "reply" -> ReplyHandler(update.ref, update.text)
                 [] update.kind = "mq" ->
                        MultiQuestionCallbackHandler(update.ref, update.text)

\* The throw of a handler that is awaited: the catch of pollUpdates ends the
\* loop over the batch.
DropBatch(p) ==
    [p EXCEPT !.batch = <<>>, !.awaiting = FALSE,
              !.dropped = @ \cup {p.batch[i] : i \in 1..Len(p.batch)}]

\* The call that the handler awaited returned: the loop goes on.
HandlerReturns ==
    /\ poller.awaiting
    /\ poller' = [poller EXCEPT !.awaiting = FALSE]
    /\ UNCHANGED <<now, storeVars, queueVars, handlerAux, telegram, dispatched, tg,
                   histVars>>

\* The call that the handler awaited threw.
HandlerThrows ==
    /\ poller.awaiting
    /\ poller' = DropBatch(poller)
    /\ UNCHANGED <<now, storeVars, queueVars, handlerAux, telegram, dispatched, tg,
                   histVars>>

\* The sendMessage that the handler awaited before its resolve returned: it
\* resolves; the reply handler then awaits its last sendMessage, which may
\* throw (the option handler's updateMessage and answerCallbackQuery do not).
HandlerResumes ==
    /\ TgResumeHandler
    /\ poller' = [poller EXCEPT !.awaiting = (tg.kind = "reply")]
    /\ UNCHANGED <<telegram, dispatched>>

\* The sendMessage that the handler awaited before its resolve threw.
HandlerFails ==
    /\ TgFailHandler
    /\ poller' = DropBatch(poller)
    /\ UNCHANGED <<telegram, dispatched>>

\* The bot's loop over the updates of Telegram, with requests to click on and
\* to reply to and a terminal session that may register.
NextUpdates ==
    \/ (nextSess <= MaxSessions /\ HandleRegister)
    \/ \E s \in SourceSessions, ty \in {"none", "question"}, qa \in BOOLEAN,
          o \in OptionLists : HandleAuthorize(s, ty, qa, o)
    \/ \E r \in ReqIds : SendDelivered(r)
    \/ \E update \in Updates : TelegramReceives(update)
    \/ PollUpdates
    \/ DispatchUpdate
    \/ HandlerReturns
    \/ HandlerThrows
    \/ HandlerResumes
    \/ HandlerFails

SpecUpdates == Init /\ [][NextUpdates]_vars

\* The same loop with every kind of state that a handler may change at hand:
\* two terminal sessions (a plain text then waits for a session choice), an
\* authorization request and a multi-step selection.
NextGate ==
    \/ (nextSess <= MaxTerminals /\ HandleRegister)
    \/ \E s \in SourceSessions, o \in OptionLists :
          HandleAuthorize(s, "none", FALSE, o)
    \/ \E r \in ReqIds : SendDelivered(r)
    \/ \E s \in SourceSessions, q \in QuestionLists : HandleMultiQuestionNotify(s, q)
    \/ \E n \in NotifIds : MqSendDelivered(n)
    \/ \E update \in GateUpdates : TelegramReceives(update)
    \/ PollUpdates
    \/ DispatchUpdate
    \/ HandlerReturns
    \/ HandlerThrows
    \/ HandlerResumes
    \/ HandlerFails
    \/ MqFinish

SpecGate == Init /\ [][NextGate]_vars

\* The session registry and its task queues on their own, with two terminals:
\* registration, the ways a message reaches a queue, acknowledgement.
NextSessions ==
    \/ HandleRegister
    \/ \E s \in 1..MaxTerminals : HandleUnregister(s)
    \/ \E t \in DefaultTexts : nextTask <= MaxQueued /\ AddTaskToDefaultSession(t)
    \/ \E t \in Texts, s \in 0..MaxTerminals :
           nextTask <= MaxQueued /\ ProcessNewTaskMessage(t, s)
    \/ \E s \in 1..MaxTerminals, m \in 1..MaxMsgs :
           nextTask <= MaxQueued /\ ProcessCallbackSess(s, m)
    \/ \E t \in 1..MaxTasks : HandleAck(t)
    \/ \E i \in 1..MaxAcks : TimerFire(i)
    \/ CleanupInterval
    \/ (now < MaxClock /\ Tick)

SpecSessions == Init /\ [][NextSessions]_vars

\* ------------------------------------------------------------ properties
Live(r) == r \in DOMAIN pendingRequests

\* The value a resolve call stored: the decision of an authorization request,
\* the selected option of a question request.
Stored(r) ==
    IF pendingRequests[r].type = "authorization"
    THEN pendingRequests[r].decision
    ELSE pendingRequests[r].selectedOption

\* The budget of the request has run out.
Expired(r) == now - pendingRequests[r].createdAt > REQUEST_TIMEOUT

\* C1: among all the resolve calls made for a request at most one returns
\* success, each call after it returns failure, and the request holds the
\* value the successful call passed (and nothing in the other field).
C1_AtMostOneResolveWins ==
    \A r \in ReqIds :
        /\ resolveOk[r] <= 1
        /\ resolveOk[r] = 1 /\ Live(r) =>
               /\ pendingRequests[r].resolved
               /\ Stored(r) = firstWin[r]
               /\ pendingRequests[r].type = "authorization" =>
                      pendingRequests[r].selectedOption = "none"
               /\ pendingRequests[r].type = "question" =>
                      pendingRequests[r].decision = "none"

\* A resolve call succeeded and a later resolve call was made on the request.
C1_Witness ==
    \E r \in ReqIds : Live(r) /\ resolveOk[r] = 1 /\ lateCall[r]
                      /\ pendingRequests[r].type = "question"

\* C2: a resolved request stays resolved, and its decision and selectedOption
\* stay what they are, in every step that does not delete the request.
C2_ResolvedIsFrozen ==
    [][\A r \in ReqIds :
          (Live(r) /\ pendingRequests[r].resolved /\ r \in DOMAIN pendingRequests') =>
              /\ pendingRequests'[r].resolved
              /\ pendingRequests'[r].decision = pendingRequests[r].decision
              /\ pendingRequests'[r].selectedOption = pendingRequests[r].selectedOption]_vars

\* A resolved question request on which a handler's resolve call was made
\* after it had become resolved.
C2_Witness ==
    \E r \in ReqIds : Live(r) /\ pendingRequests[r].resolved
                      /\ pendingRequests[r].type = "question" /\ lateCall[r]

\* C3: once a poll has found an authorization request unresolved after its
\* budget, the request is resolved with decision deny, and it stays so whatever
\* happens later (a click, a cancel, another poll), until the sweep deletes it.
C3_TimeoutDenyIsFinal ==
    \A r \in ReqIds :
        timeoutSeen[r] /\ Live(r) =>
            /\ pendingRequests[r].resolved
            /\ pendingRequests[r].decision = "deny"
            /\ ~pendingRequests[r].cancelled

\* The poll has denied the request and a later resolve call was made on it.
C3_Witness ==
    \E r \in ReqIds : timeoutSeen[r] /\ Live(r) /\ lateCall[r]
                      /\ pendingRequests[r].decision = "deny"

\* C4: a cancelled request carries neither a decision nor a selected option,
\* and no resolve call on it has returned success.
C4_CancelIsTerminal ==
    \A r \in ReqIds :
        Live(r) /\ pendingRequests[r].cancelled =>
            /\ pendingRequests[r].resolved
            /\ pendingRequests[r].decision = "none"
            /\ pendingRequests[r].selectedOption = "none"
            /\ resolveOk[r] = 0

\* A cancelled authorization request on which a resolve call was made after
\* the cancel.
C4_Witness ==
    \E r \in ReqIds : Live(r) /\ pendingRequests[r].cancelled /\ lateCall[r]
                      /\ pendingRequests[r].type = "authorization"

\* Allow-all is set for the source session.
AllowAllSet(s) == s \in DOMAIN sessionStates /\ sessionStates[s].allowAll

\* C5: while allow-all is set for a source session, an authorization intake from
\* it (an intake that is not a well-formed question) is answered resolved /
\* allow at once, and the intake creates no request and sends no notification.
C5_AllowAllShortCircuits ==
    /\ [](\A s \in SourceSessions, ty \in {"none", "question"}, qa \in BOOLEAN :
             (AllowAllSet(s) /\ ~(ty = "question" /\ qa)) =>
                 authorizeResponse(sessionStates, s, ty, qa) =
                     [status |-> "resolved", decision |-> "allow"])
    /\ [][\A s \in SourceSessions, ty \in {"none", "question"}, qa \in BOOLEAN,
             o \in OptionLists :
             (/\ AllowAllSet(s)
              /\ ~(ty = "question" /\ qa)
              /\ HandleAuthorize(s, ty, qa, o)) =>
                 /\ pendingRequests' = pendingRequests
                 /\ nextReq' = nextReq
                 /\ outbox' = outbox]_vars

\* Two intakes in a row were answered at once while allow-all was set.
C5_Witness ==
    \E s \in SourceSessions : AllowAllSet(s) /\ allowAllHits[s] >= 2

\* C8 as stated: a live question request polls pending while no pick was
\* handled, and once a pick was handled for it every poll reports resolved with
\* selectedOption equal to the picked option.
C8_PickThenResolved ==
    \A r \in ReqIds :
        Live(r) /\ pendingRequests[r].type = "question" =>
            /\ (picked[r] = "none" /\ ~pendingRequests[r].resolved) =>
                   pollResponse(pendingRequests, r, now).status = "pending"
            /\ picked[r] # "none" =>
                   /\ pollResponse(pendingRequests, r, now).status = "resolved"
                   /\ pollResponse(pendingRequests, r, now).selectedOption = picked[r]

\* C9 as stated: after the poll that found the request timed out, every poll
\* of the request reports status timeout with decision deny.
C9_TimeoutRepeats ==
    \A r \in ReqIds :
        timeoutSeen[r] /\ Live(r) =>
            /\ pollResponse(pendingRequests, r, now).status = "timeout"
            /\ pollResponse(pendingRequests, r, now).decision = "deny"

\* C9 amended: a poll of an authorization request that is unresolved after its
\* budget reports timeout / deny; every poll after that one reports status
\* resolved with decision deny, as long as the request is in the store.
C9_TimeoutThenResolvedDeny ==
    \A r \in ReqIds :
        Live(r) /\ pendingRequests[r].type = "authorization" =>
            /\ (~pendingRequests[r].resolved /\ Expired(r)) =>
                   /\ pollResponse(pendingRequests, r, now).status = "timeout"
                   /\ pollResponse(pendingRequests, r, now).decision = "deny"
            /\ timeoutSeen[r] =>
                   /\ pollResponse(pendingRequests, r, now).status = "resolved"
                   /\ pollResponse(pendingRequests, r, now).decision = "deny"

\* The first poll after expiry has been answered and the request is still there.
C9_Witness ==
    \E r \in ReqIds : timeoutSeen[r] /\ Live(r) /\ resolveOk[r] = 1 /\ ~lateCall[r]

\* C10: when a human decision has resolved a request within its budget, a poll
\* never reports timeout for it: it reports resolved with that decision while
\* the request is in the store, also after the budget has run out.
C10_DecisionBeatsTimeout ==
    \A r \in ReqIds :
        humanRes[r] # "none" =>
            /\ pollResponse(pendingRequests, r, now).status # "timeout"
            /\ Live(r) =>
                   /\ pollResponse(pendingRequests, r, now).status = "resolved"
                   /\ pendingRequests[r].type = "authorization" =>
                          pollResponse(pendingRequests, r, now).decision = humanRes[r]
                   /\ pendingRequests[r].type = "question" =>
                          pollResponse(pendingRequests, r, now).selectedOption = humanRes[r]

\* A human allowed the request in time and its budget has run out since.
C10_Witness ==
    \E r \in ReqIds : Live(r) /\ humanRes[r] = "allow" /\ Expired(r)

\* The tasks pending(session) has to return: the unacknowledged ones of it.
Unacknowledged(s) ==
    {id \in DOMAIN tasks : tasks[id].sessionId = s /\ ~tasks[id].acknowledged}

\* A keystroke or sequence task, as against a message task.
Injected(id) == tasks[id].type \in {"keystroke", "sequence"}

\* C6 as stated: pending(session) returns all the unacknowledged tasks of the
\* session, every keystroke and sequence task before any message task, and
\* each of the two groups in creation order.
C6_InjectedBeforeMessages ==
    \A s \in DOMAIN sessions :
        LET p == getPendingTasks(tasks, s) IN
        /\ {p[i] : i \in DOMAIN p} = Unacknowledged(s)
        /\ \A i, j \in DOMAIN p :
               i < j =>
                   /\ ~(~Injected(p[i]) /\ Injected(p[j]))
                   /\ Injected(p[i]) = Injected(p[j]) => p[i] < p[j]

\* The handler of the last choice of notification n is at its await.
MqAwaiting(n) == tg.kind = "mq" /\ tg.req = n

\* C7: for a notification with N sub-questions, the accepted choices number at
\* most N; the i-th enqueues one sequence task, of length 2 for i < N and of
\* length 3 for i = N; between handlers the live state stands at index = number
\* of accepted choices < N, and once the N-th choice is handled the state is gone.
C7_MultiStepFlow ==
    /\ [](\A n \in NotifIds :
             LET total == mqLog[n].total
                 lens == mqLog[n].lens
             IN
             /\ Len(lens) <= total
             /\ \A i \in DOMAIN lens : lens[i] = IF i = total THEN 3 ELSE 2
             /\ (n \in DOMAIN multiQuestionStates /\ ~MqAwaiting(n)) =>
                    /\ multiQuestionStates[n].currentIndex = Len(lens)
                    /\ Len(multiQuestionStates[n].answers) = Len(lens)
                    /\ Len(lens) < total
             /\ (n < nextNotif /\ Len(lens) = total /\ ~MqAwaiting(n)) =>
                    n \notin DOMAIN multiQuestionStates)
    /\ [][\A n \in NotifIds :
             mqLog'[n].lens # mqLog[n].lens =>
                 /\ DOMAIN sessions # {}
                 /\ DOMAIN tasks' = DOMAIN tasks \cup {nextTask}
                 /\ nextTask \notin DOMAIN tasks
                 /\ tasks'[nextTask].type = "sequence"
                 /\ Len(tasks'[nextTask].sequence) =
                        mqLog'[n].lens[Len(mqLog'[n].lens)]]_vars

\* A flow of two sub-questions has taken its two choices and is submitted.
C7_Witness ==
    \E n \in NotifIds :
        /\ mqLog[n].total = 2
        /\ mqLog[n].lens = <<2, 3>>
        /\ n \notin DOMAIN multiQuestionStates
        /\ tg = NoTg

\* An unresolved question request whose budget has run out.
LateQuestion(r) ==
    /\ Live(r)
    /\ pendingRequests[r].type = "question"
    /\ ~pendingRequests[r].resolved
    /\ Expired(r)

\* C11 as stated: an option click or a reply handled on a question request that
\* is unresolved after its budget is accepted: the handler resolves the request
\* with that answer, or is on its way to (it awaits sendMessage and holds the
\* answer).
C11_LateAnswerAccepted ==
    [][/\ \A r \in ReqIds, o \in {"A", "B"} :
             (LateQuestion(r) /\ ProcessCallbackOpt(r, o)) =>
                 \/ tg' = [kind |-> "opt", req |-> r, val |-> o]
                 \/ /\ pendingRequests'[r].resolved
                    /\ pendingRequests'[r].selectedOption = o
       /\ \A m \in 1..MaxRequests, t \in Texts :
             LET r == getRequestByMessageId(pendingRequests, m) IN
             (r # 0 /\ LateQuestion(r) /\ ProcessReply(m, t)) =>
                 \/ tg' = [kind |-> "reply", req |-> r,
                           val |-> "__CUSTOM__:" \o sanitize(t)]
                 \/ /\ pendingRequests'[r].resolved
                    /\ pendingRequests'[r].selectedOption =
                           "__CUSTOM__:" \o sanitize(t)]_vars

\* C13 as stated: a poll that reports resolved carries a decision in {allow,
\* deny} for an authorization request and a selected option for a question
\* request.
C13_ResolvedCarriesOutcome ==
    \A r \in ReqIds :
        (Live(r) /\ pollResponse(pendingRequests, r, now).status = "resolved") =>
            /\ pendingRequests[r].type = "authorization" =>
                   pollResponse(pendingRequests, r, now).decision \in {"allow", "deny"}
            /\ pendingRequests[r].type = "question" =>
                   pollResponse(pendingRequests, r, now).selectedOption # "none"

\* C19: a poll of a question request that is unresolved after its budget is
\* answered pending, with no decision and no selected option, and the poll
\* leaves the request as it is.
C19_LateQuestionPollsPending ==
    /\ [](\A r \in ReqIds :
             LateQuestion(r) =>
                 /\ pollResponse(pendingRequests, r, now) =
                        [status |-> "pending", decision |-> "none",
                         selectedOption |-> "none"]
                 /\ pollEffect(pendingRequests, r, now) = pendingRequests)
    /\ [][\A r \in ReqIds :
             (LateQuestion(r) /\ HandlePoll(r)) =>
                 /\ pendingRequests' = pendingRequests
                 /\ ~pendingRequests'[r].resolved
                 /\ pendingRequests'[r].decision = "none"
                 /\ pendingRequests'[r].selectedOption = "none"]_vars

\* A question request was polled after its budget and is still unresolved.
C19_Witness ==
    \E r \in ReqIds : pendingSeen[r] /\ LateQuestion(r)

\* The texts that tell the human the request was handled before.
AlreadyHandled == {"Already answered", "Already processed", "Already handled"}

\* C20 as stated: when the request has become resolved while the handler of a
\* click or a reply was between its resolved check and its resolve call, the
\* handler tells the human the request was already handled and does not edit
\* the message to show the human's answer.
C20_RaceLoserIsTold ==
    [][(/\ TgResume
        /\ Live(tg.req)
        /\ pendingRequests[tg.req].resolved) =>
            /\ resumeOutput(tg).answer \in AlreadyHandled
            /\ resumeOutput(tg).edit = "none"]_vars

\* The message of request r is out (it carries the buttons, it can be replied to).
Notified(r) == pendingRequests[r].messageId # 0

\* C12: for a cancelled request every click (allow, deny, allow-all, option)
\* and every reply is answered "already handled" with no edit of the message,
\* and the handler changes neither the requests, nor the tasks and sessions of
\* the queue, nor the allow-all states.
C12_CancelledRejectsHuman ==
    /\ [](\A r \in ReqIds :
             (Live(r) /\ pendingRequests[r].cancelled) =>
                 /\ \A a \in {"allow", "deny", "allowall"} :
                        /\ authCallbackOutput(pendingRequests, r, a, now).answer
                               \in AlreadyHandled
                        /\ authCallbackOutput(pendingRequests, r, a, now).edit = "none"
                 /\ optCallbackOutput(optCallbackBranch(pendingRequests, r, now)).answer
                        \in AlreadyHandled
                 /\ optCallbackOutput(optCallbackBranch(pendingRequests, r, now)).edit
                        = "none"
                 /\ Notified(r) =>
                        LET found == getRequestByMessageId(pendingRequests,
                                                           pendingRequests[r].messageId)
                        IN  /\ found = r
                            /\ replyOutput(replyBranch(pendingRequests, found)).answer
                                   \in AlreadyHandled
                            /\ replyOutput(replyBranch(pendingRequests, found)).edit
                                   = "none")
    /\ [][\A r \in ReqIds :
             (/\ Live(r)
              /\ pendingRequests[r].cancelled
              /\ \/ \E a \in {"allow", "deny", "allowall"} : ProcessCallbackAuth(a, r)
                 \/ \E o \in {"A", "B"} : ProcessCallbackOpt(r, o)
                 \/ \E t \in Texts :
                        /\ Notified(r)
                        /\ ProcessReply(pendingRequests[r].messageId, t)) =>
                 /\ pendingRequests' = pendingRequests
                 /\ tasks' = tasks
                 /\ sessions' = sessions
                 /\ sessionStates' = sessionStates
                 /\ tg' = tg]_vars

\* With a terminal session registered, a click or a reply for a cancelled
\* request has been turned down.
C12_Witness ==
    \E r \in ReqIds :
        /\ Live(r)
        /\ pendingRequests[r].cancelled
        /\ refused[r]
        /\ DOMAIN sessions # {}

\* No registered session was active later than s.
MostRecent(s) ==
    /\ s \in DOMAIN sessions
    /\ \A o \in DOMAIN sessions : sessions[o].lastActivity <= sessions[s].lastActivity

\* C14: a message enqueued through addTaskToDefaultSession goes to a registered
\* session than which none was active later; with sessions 1 and 2 registered
\* in that order and 2 active later than 1, it goes to 2.  With no session
\* registered nothing is enqueued.
C14_DefaultIsMostRecent ==
    /\ [](/\ DOMAIN sessions # {} => MostRecent(defaultSession(sessions))
          /\ (/\ DOMAIN sessions = {1, 2}
              /\ sessions[2].lastActivity > sessions[1].lastActivity) =>
                 defaultSession(sessions) = 2)
    /\ [][\A t \in DefaultTexts :
             AddTaskToDefaultSession(t) =>
                 IF DOMAIN sessions = {}
                 THEN tasks' = tasks
                 ELSE /\ nextTask \notin DOMAIN tasks
                      /\ DOMAIN tasks' = DOMAIN tasks \cup {nextTask}
                      /\ \A id \in DOMAIN tasks : tasks'[id] = tasks[id]
                      /\ MostRecent(tasks'[nextTask].sessionId)
                      /\ tasks'[nextTask].message = trim(t)]_vars

\* With both sessions registered, a message without a target has landed on
\* the second one.
C14_Witness ==
    /\ DOMAIN sessions = {1, 2}
    /\ \E id \in DOMAIN tasks : tasks[id].message = "go" /\ tasks[id].sessionId = 2

\* C15: with two or more sessions registered a plain message without a prefix
\* enqueues nothing and waits for a pick; while it waits no task was enqueued
\* for it; a pick that enqueues does so for a waiting message, with one task,
\* on the picked session, carrying the message; a pick of a registered session
\* for a waiting message does enqueue; over all picks for one message at most
\* one task is enqueued.
C15_PickEnqueuesOnce ==
    /\ [](\A m \in 1..MaxMsgs :
             /\ pickLog[m].enqueued <= 1
             /\ m \in DOMAIN pendingTaskMessages => pickLog[m].enqueued = 0)
    /\ [][/\ \A t \in Texts :
                (Cardinality(DOMAIN sessions) >= 2 /\ ProcessNewTaskMessage(t, 0)) =>
                    /\ tasks' = tasks
                    /\ nextMsg \in DOMAIN pendingTaskMessages'
          /\ \A s \in 1..MaxTerminals, m \in 1..MaxMsgs :
                ProcessCallbackSess(s, m) =>
                    IF m \in DOMAIN pendingTaskMessages /\ s \in DOMAIN sessions
                    THEN /\ nextTask \notin DOMAIN tasks
                         /\ DOMAIN tasks' = DOMAIN tasks \cup {nextTask}
                         /\ \A id \in DOMAIN tasks : tasks'[id] = tasks[id]
                         /\ tasks'[nextTask].sessionId = s
                         /\ tasks'[nextTask].message = pendingTaskMessages[m].text
                         /\ m \notin DOMAIN pendingTaskMessages'
                    ELSE tasks' = tasks]_vars

\* A message waited for a pick, a pick enqueued it, and a second pick for it
\* was handled after that.
C15_Witness ==
    \E m \in 1..MaxMsgs :
        /\ pickLog[m].enqueued = 1
        /\ pickLog[m].late
        /\ \E id \in DOMAIN tasks : tasks[id].message = "hi"

\* C16: acknowledging an id that is not in the store answers success false
\* (acknowledgeTask returns null) and changes no task, no session and no
\* pending deletion.
C16_AckUnknownIsInert ==
    /\ [](\A t \in 1..MaxTasks :
             t \notin DOMAIN tasks =>
                 /\ ~ackResponse(tasks, t).success
                 /\ acknowledgeTask(tasks, t) = tasks)
    /\ [][\A t \in 1..MaxTasks :
             (t \notin DOMAIN tasks /\ HandleAck(t)) =>
                 /\ tasks' = tasks
                 /\ sessions' = sessions
                 /\ timers' = timers]_vars

\* An acknowledgement of an unknown id was answered while the store held a
\* task and a session.
C16_Witness ==
    ackNull /\ DOMAIN tasks # {} /\ DOMAIN sessions # {}

\* The deferred deletions pending for task t.
Deletions(t) == {i \in DOMAIN timers : timers[i].task = t}

\* C17 as stated: however many times a task is acknowledged, at most one
\* deferred deletion is pending for it.
C17_OneDeletionPerTask ==
    \A t \in 1..MaxTasks : Cardinality(Deletions(t)) <= 1

\* C18: unregister of a registered session removes that session and exactly
\* the tasks of it, acknowledged or not, leaves every other session and task
\* as it is, and answers success; unregister of an unknown id answers success
\* false and changes no session and no task.
C18_UnregisterCascades ==
    /\ [](\A s \in 1..MaxTerminals :
             unregisterResponse(sessions, s).success = (s \in DOMAIN sessions))
    /\ [][\A s \in 1..MaxTerminals :
             HandleUnregister(s) =>
                 IF s \in DOMAIN sessions
                 THEN /\ DOMAIN sessions' = DOMAIN sessions \ {s}
                      /\ \A o \in DOMAIN sessions' : sessions'[o] = sessions[o]
                      /\ DOMAIN tasks' = {id \in DOMAIN tasks : tasks[id].sessionId # s}
                      /\ \A id \in DOMAIN tasks' : tasks'[id] = tasks[id]
                 ELSE sessions' = sessions /\ tasks' = tasks]_vars

\* Before any time has passed (no sweep and no deferred deletion can have
\* removed a task), the first session is gone together with the first task,
\* which had been acknowledged, and the second session keeps its task.
C18_Witness ==
    /\ now = 0
    /\ DOMAIN sessions = {2}
    /\ DOMAIN tasks = {2}
    /\ tasks[2].sessionId = 2
    /\ \E i \in DOMAIN timers : timers[i].task = 1


\* C21: resolveAuthRequest applied to a question request, and
\* resolveQuestionRequest applied to an authorization request, return false and
\* leave the request as it is: unresolved, with no decision and no selected
\* option, whatever value the call carries.
C21_WrongKindIsRefused ==
    /\ [](\A r \in ReqIds :
            (Live(r) /\ ~pendingRequests[r].resolved) =>
                /\ pendingRequests[r].type = "question" =>
                       \A d \in {"allow", "deny"} :
                           /\ ~resolveAuthGuard(pendingRequests, r)
                           /\ resolveAuthRequest(pendingRequests, r, d) = pendingRequests
                /\ pendingRequests[r].type = "authorization" =>
                       \A o \in {"A", "B"} :
                           /\ ~resolveQuestionGuard(pendingRequests, r)
                           /\ resolveQuestionRequest(pendingRequests, r, o)
                                  = pendingRequests
                /\ crossCall[r] =>
                       /\ pendingRequests[r].decision = "none"
                       /\ pendingRequests[r].selectedOption = "none")
    /\ [][\A r \in ReqIds :
             (crossCall'[r] /\ ~crossCall[r]) =>
                 /\ pendingRequests' = pendingRequests
                 /\ resolveOk' = resolveOk]_vars

\* A resolve call of the other kind was made on a request that is still
\* unresolved, for a question and for an authorization request.
C21_Witness ==
    \E r \in ReqIds :
        /\ Live(r) /\ crossCall[r] /\ ~pendingRequests[r].resolved
        /\ pendingRequests[r].type = "question"

C21_WitnessAuth ==
    \E r \in ReqIds :
        /\ Live(r) /\ crossCall[r] /\ ~pendingRequests[r].resolved
        /\ pendingRequests[r].type = "authorization"

\* C22: with no terminal session registered, a human's pick of an option of a
\* pending question request still resolves the request with that option and
\* enqueues no task: when the handler of such a pick ends and the request is
\* still unresolved at that moment, the request leaves the step resolved with
\* the picked option, and the tasks are as before.
C22_PickKeptWithoutSession ==
    [][(/\ tg.kind = "opt" /\ tg' = NoTg
        /\ DOMAIN sessions = {}
        /\ resolveQuestionGuard(pendingRequests, tg.req)) =>
           /\ pendingRequests'[tg.req].resolved
           /\ pendingRequests'[tg.req].selectedOption = tg.val
           /\ tasks' = tasks]_vars

\* The notification n was sent and its selection state is gone.
MqGone(n) == n \in 1..(nextNotif - 1) /\ n \notin DOMAIN multiQuestionStates

\* Every sub-question of the notification n was answered (the flow was submitted).
MqSubmitted(n) == mqLog[n].total > 0 /\ Len(mqLog[n].lens) = mqLog[n].total

\* C23: a choice that names a selection state that is gone (swept after its
\* expiry, or deleted after the last answer) is answered "selection expired",
\* with or without a terminal session; handling it enqueues no task and
\* creates no state.
C23_GoneSelectionIsExpired ==
    /\ [](\A n \in NotifIds :
            MqGone(n) =>
                /\ mqCallbackBranch(multiQuestionStates, sessions, n) = "expired"
                /\ mqCallbackOutput(mqCallbackBranch(multiQuestionStates, sessions, n))
                       .answer = "Selection expired")
    /\ [][\A n \in NotifIds :
             ("expired" \in mqRefused'[n] /\ "expired" \notin mqRefused[n]) =>
                 /\ MqGone(n)
                 /\ tasks' = tasks /\ nextTask' = nextTask
                 /\ multiQuestionStates' = multiQuestionStates
                 /\ sessions' = sessions]_vars

\* A choice was turned down as expired for a selection that the sweep removed
\* before its last answer ...
C23_Witness ==
    \E n \in NotifIds : "expired" \in mqRefused[n] /\ ~MqSubmitted(n)

\* ... and for a selection that was submitted.
C23_WitnessSubmitted ==
    \E n \in NotifIds : "expired" \in mqRefused[n] /\ MqSubmitted(n)

\* C24: a multi-step choice that arrives while no terminal session is
\* registered is answered with the missing session and changes nothing:
\* currentIndex, the collected answers and the tasks stay, and once a session
\* is registered a choice for the same sub-question is accepted.
C24_NoSessionChoiceIsSoft ==
    /\ [](\A n \in NotifIds :
            (n \in DOMAIN multiQuestionStates /\ DOMAIN sessions = {}) =>
                /\ mqCallbackBranch(multiQuestionStates, sessions, n) = "no_session"
                /\ mqCallbackOutput(mqCallbackBranch(multiQuestionStates, sessions, n))
                       .answer = "No active terminal session")
    /\ [](\A n \in NotifIds :
            ("no_session" \in mqRefused[n] /\ n \in DOMAIN multiQuestionStates
                 /\ DOMAIN sessions # {}) =>
                mqCallbackBranch(multiQuestionStates, sessions, n) = "accept")
    /\ [][\A n \in NotifIds :
             ("no_session" \in mqRefused'[n] /\ "no_session" \notin mqRefused[n]) =>
                 /\ multiQuestionStates' = multiQuestionStates
                 /\ tasks' = tasks /\ nextTask' = nextTask
                 /\ mqLog' = mqLog]_vars

\* A choice was turned down for the missing session, and every sub-question of
\* that selection was answered afterwards.
C24_Witness ==
    \E n \in NotifIds : "no_session" \in mqRefused[n] /\ MqSubmitted(n)

\* C25: under fair firing of the sweep timer and advancing time, every pending
\* request, every task, every allow-all entry and every multi-step selection
\* state is eventually deleted, whether or not a caller polls, acknowledges or
\* cancels again.
C25_EverythingIsSwept ==
    /\ \A r \in ReqIds : Live(r) ~> ~Live(r)
    /\ \A t \in 1..MaxTasks : (t \in DOMAIN tasks) ~> (t \notin DOMAIN tasks)
    /\ \A s \in SourceSessions : AllowAllSet(s) ~> (s \notin DOMAIN sessionStates)
    /\ \A n \in NotifIds :
           (n \in DOMAIN multiQuestionStates) ~> (n \notin DOMAIN multiQuestionStates)

\* A request, a task, an allow-all entry (it answered an intake) and a
\* selection state were created, and all of them are gone.
C25_Witness ==
    /\ nextReq > 1 /\ pendingRequests = <<>>
    /\ nextTask > 1 /\ tasks = <<>>
    /\ nextNotif > 1 /\ multiQuestionStates = <<>>
    /\ \E s \in SourceSessions : allowAllHits[s] > 0
    /\ sessionStates = <<>>

\* getTask: the task with that id is in the Map.
Retrievable(t) == t \in DOMAIN tasks

\* pending() of some session returns the task t.
ReturnedPending(t) ==
    \E s \in 1..MaxTerminals :
        \E i \in DOMAIN getPendingTasks(tasks, s) : getPendingTasks(tasks, s)[i] = t

\* The step is an acknowledgement that scheduled a deletion: the new timer is
\* due after the grace delay and its task is in the store, acknowledged.
AckSchedules ==
    Len(timers') > Len(timers) =>
        LET t == timers'[Len(timers')].task IN
        /\ timers'[Len(timers')].due = now + CLEANUP_DELAY
        /\ t \in DOMAIN tasks' /\ tasks'[t].acknowledged

\* The step is the deferred deletion of task t: a timer of t that is due is
\* consumed and t alone leaves the store.
RemovedByTimer(t) ==
    /\ \E i \in DOMAIN timers : timers[i].task = t /\ now >= timers[i].due
    /\ Len(timers') < Len(timers)
    /\ tasks' = Restrict(tasks, DOMAIN tasks \ {t})

\* The step is the sweep of expired tasks and t is older than TASK_TIMEOUT.
RemovedBySweep(t) ==
    /\ now - tasks[t].createdAt > TASK_TIMEOUT
    /\ tasks' = cleanupExpiredTasks(tasks, now)

\* The step unregisters the session of t, which takes all its tasks with it.
RemovedByUnregister(t) ==
    /\ tasks[t].sessionId \in DOMAIN sessions
    /\ sessions' = unregisterSession(sessions, tasks[t].sessionId)
    /\ tasks' = unregisterTasks(tasks, tasks[t].sessionId)

\* C26, as stated: an acknowledgement sets acknowledged = true and leaves the
\* task in the store; an acknowledged task is never returned by pending() and
\* never becomes unacknowledged again; and it leaves the store only by the
\* deferred deletion that is due or by the sweep of expired tasks.
C26_RemovedOnlyByDeletionOrSweep ==
    /\ [](\A t \in DOMAIN tasks : tasks[t].acknowledged => ~ReturnedPending(t))
    /\ [][/\ AckSchedules
          /\ \A t \in DOMAIN tasks :
               tasks[t].acknowledged =>
                   /\ t \in DOMAIN tasks' => tasks'[t].acknowledged
                   /\ t \notin DOMAIN tasks' =>
                          RemovedByTimer(t) \/ RemovedBySweep(t)]_vars

\* C26, amended: an acknowledgement sets acknowledged = true and leaves the
\* task in the store; an acknowledged task is never returned by pending() and
\* never becomes unacknowledged again; and it leaves the store only by the
\* deferred deletion that is due, by the sweep of expired tasks, or by the
\* unregistration of its session.
C26_AcknowledgedHiddenUntilDeleted ==
    /\ [](\A t \in DOMAIN tasks : tasks[t].acknowledged => ~ReturnedPending(t))
    /\ [][/\ AckSchedules
          /\ \A t \in DOMAIN tasks :
               tasks[t].acknowledged =>
                   /\ t \in DOMAIN tasks' => tasks'[t].acknowledged
                   /\ t \notin DOMAIN tasks' =>
                          \/ RemovedByTimer(t)
                          \/ RemovedBySweep(t)
                          \/ RemovedByUnregister(t)]_vars

\* A task was acknowledged after it had expired: it is still retrievable, its
\* deletion is pending and not yet due, the sweep will remove it, its session
\* is registered, and pending() of that session returns another task.
C26_Witness ==
    \E t \in DOMAIN tasks, u \in DOMAIN tasks :
        /\ tasks[t].acknowledged /\ Retrievable(t)
        /\ \E i \in DOMAIN timers : timers[i].task = t /\ now < timers[i].due
        /\ now - tasks[t].createdAt > TASK_TIMEOUT
        /\ tasks[t].sessionId \in DOMAIN sessions
        /\ ~tasks[u].acknowledged /\ tasks[u].sessionId = tasks[t].sessionId
        /\ ReturnedPending(u)

\* The sweep has removed an acknowledged task before its deferred deletion was
\* due: the timer is pending, its task is gone, and no session was ever removed.
C26_WitnessSwept ==
    /\ nextSess > 1 /\ DOMAIN sessions = 1..(nextSess - 1)
    /\ \E i \in DOMAIN timers :
           timers[i].task \notin DOMAIN tasks /\ now < timers[i].due

\* The step enqueues exactly one task, of type keystroke or sequence.
EnqueuesKeys ==
    /\ nextTask' = nextTask + 1
    /\ DOMAIN tasks' = DOMAIN tasks \cup {nextTask}
    /\ tasks'[nextTask].type \in {"keystroke", "sequence"}

\* C27: every keystroke or sequence task that a human action produces (an
\* option click or a reply on a request, a click on a prompt notification, a
\* multi-step choice) is enqueued on a registered session than which none has
\* a greater lastActivity at that moment, whatever the source session id of
\* the request or notification; with two sessions of different lastActivity
\* it is the later one.
C27_KeysGoToMostRecent ==
    [][EnqueuesKeys =>
           /\ MostRecent(tasks'[nextTask].sessionId)
           /\ \A o \in DOMAIN sessions :
                  sessions[o].lastActivity < sessions[tasks'[nextTask].sessionId].lastActivity
                      => tasks'[nextTask].sessionId # o
           /\ (/\ DOMAIN sessions = {1, 2}
               /\ sessions[1].lastActivity > sessions[2].lastActivity) =>
                  tasks'[nextTask].sessionId = 1]_vars

\* With two sessions registered, the keystroke of an answer to a question of
\* the source session "s2" was enqueued on the first session, which was then
\* the one active later.
C27_Witness ==
    \E t \in DOMAIN tasks :
        /\ tasks[t].type = "keystroke" /\ tasks[t].requestId \in DOMAIN pendingRequests
        /\ pendingRequests[tasks[t].requestId].sessionId = "s2"
        /\ tasks[t].sessionId = 1
        /\ 2 \in DOMAIN sessions
        /\ sessions[2].lastActivity < tasks[t].createdAt

\* The keystroke that the claim gives for the option ids of the alphabet.
ClaimedKeystroke(optionId) ==
    IF optionId = "C" THEN "3" ELSE IF optionId = "12" THEN "12" ELSE "1"

\* C28: the option id of a question selection maps to its keystroke: a single
\* uppercase letter to the decimal string of its alphabet position, an
\* all-digit id to itself, any other id to "1"; and whatever the shape, a
\* click on an option of an unresolved question request within its budget,
\* with a session registered, resolves the request with the option id and
\* enqueues one keystroke task that carries the mapped keystroke.
C28_OptionIdToKeystroke ==
    /\ [](/\ optionKeystroke("A") = "1" /\ optionKeystroke("B") = "2"
          /\ optionKeystroke("C") = "3" /\ optionKeystroke("J") = "10"
          /\ optionKeystroke("Z") = "26"
          /\ \A id \in {"0", "1", "7", "9", "10", "12", "07", "99"} :
                 optionKeystroke(id) = id
          /\ \A id \in {"", "a", "z", "AB", "A1", "1A", "1a", "yes", "-1", "1.5",
                          " 1", "A ", "opt:1"} :
                 optionKeystroke(id) = "1")
    /\ [][\A r \in ReqIds, o \in InjectOptionIds :
             (/\ tg.kind = "idle"
              /\ optCallbackBranch(pendingRequests, r, now) = "accept"
              /\ DOMAIN sessions # {}
              /\ ProcessCallbackOpt(r, o)) =>
                 /\ pendingRequests'[r].resolved
                 /\ pendingRequests'[r].selectedOption = o
                 /\ EnqueuesKeys
                 /\ tasks'[nextTask].type = "keystroke"
                 /\ tasks'[nextTask].message = ClaimedKeystroke(o)
                 /\ tasks'[nextTask].requestId = r]_vars

\* The option with an id of no expected shape was picked: the request is
\* resolved with it and the keystroke "1" is enqueued ...
C28_Witness ==
    \E t \in DOMAIN tasks :
        /\ tasks[t].type = "keystroke" /\ tasks[t].requestId \in DOMAIN pendingRequests
        /\ pendingRequests[tasks[t].requestId].selectedOption = "yes"
        /\ tasks[t].message = "1"

\* ... and so were the option with a letter and the option with digits.
C28_WitnessLetter ==
    \E t \in DOMAIN tasks :
        /\ tasks[t].type = "keystroke" /\ tasks[t].requestId \in DOMAIN pendingRequests
        /\ pendingRequests[tasks[t].requestId].selectedOption = "C"
        /\ tasks[t].message = "3"

C28_WitnessDigits ==
    \E t \in DOMAIN tasks :
        /\ tasks[t].type = "keystroke" /\ tasks[t].requestId \in DOMAIN pendingRequests
        /\ pendingRequests[tasks[t].requestId].selectedOption = "12"
        /\ tasks[t].message = "12"

\* The command sends a key of the task's list (not the Enter that follows
\* literal text).
IsKey(command) == command.part = "key"

\* The keys of a task's list that the commands in sent have sent, in order.
KeysOf(sent) ==
    LET keyCommands == SelectSeq(sent, IsKey) IN
    [i \in DOMAIN keyCommands |-> keyCommands[i].key]

\* C29 for one sequence task and the commands run for it so far.
InOrderUntilFailure(task, sent) ==
    /\ Len(KeysOf(sent)) <= Len(task.sequence)
    /\ KeysOf(sent) = SubSeq(task.sequence, 1, Len(KeysOf(sent)))
    /\ \A i \in DOMAIN sent :
           /\ sent[i].key \in {"Tab", "Enter"} => ~sent[i].literal
           /\ i < Len(sent) => sent[i].ok
           /\ i < Len(sent) => sent[i].step <= sent[i + 1].step

\* C29: the wrapper sends the keys of a sequence task in list order, one
\* command at a time; Tab and Enter go as key names, never as literal text;
\* once a command has failed no further command of the sequence is run, and
\* the acknowledgement carries success = false; it carries success = true
\* only when every key of the list was sent.
C29_SequenceInOrder ==
    /\ [](wrapper.batch # <<>> /\ wrapper.batch[1].type = "sequence" =>
              InOrderUntilFailure(wrapper.batch[1], wrapper.sent))
    /\ [](wrapper.lastAck.task.type = "sequence" =>
              /\ InOrderUntilFailure(wrapper.lastAck.task, wrapper.lastAck.sent)
              /\ wrapper.lastAck.sent # <<>>
              /\ wrapper.lastAck.success =
                     wrapper.lastAck.sent[Len(wrapper.lastAck.sent)].ok
              /\ wrapper.lastAck.success =>
                     KeysOf(wrapper.lastAck.sent) = wrapper.lastAck.task.sequence)
    /\ [][(wrapper.batch # <<>> /\ wrapper'.batch = wrapper.batch) =>
              /\ Len(wrapper'.sent) <= Len(wrapper.sent) + 1
              /\ SubSeq(wrapper'.sent, 1, Len(wrapper.sent)) = wrapper.sent]_vars

\* A three-key sequence whose second key (Tab) failed was acknowledged as
\* failed: the first key was sent, the third never.
C29_Witness ==
    /\ wrapper.lastAck.task.type = "sequence"
    /\ Len(wrapper.lastAck.task.sequence) = 3
    /\ ~wrapper.lastAck.success
    /\ KeysOf(wrapper.lastAck.sent) = SubSeq(wrapper.lastAck.task.sequence, 1, 2)

\* A sequence that starts with an id sent as literal text went through to
\* its last key.
C29_WitnessLiteral ==
    /\ wrapper.lastAck.task.type = "sequence"
    /\ wrapper.lastAck.success
    /\ wrapper.lastAck.sent[1].literal

\* C30: after any sequence of registrations, unregistrations, enqueues by
\* human actions, acknowledgements and sweeps, every task in the store belongs
\* to a registered session, also when the inactivity sweep rather than an
\* unregistration removed a session.
C30_NoOrphanTask ==
    /\ [](\A t \in DOMAIN tasks : tasks[t].sessionId \in DOMAIN sessions)
    /\ [][\A id \in DOMAIN sessions :
             id \notin DOMAIN sessions' =>
                 \A t \in DOMAIN tasks' : tasks'[t].sessionId # id]_vars

\* The inactivity sweep removed a session while the store held a task of it,
\* and another session is still registered.
C30_Witness ==
    /\ sweptWithTasks # {}
    /\ DOMAIN sessions # {}
    /\ \A id \in sweptWithTasks : id \notin DOMAIN sessions

\* C31 as stated: every task that carries a linkedRequestId was enqueued by a
\* human action that resolved that request: a step that adds such a task finds
\* the request unresolved and leaves it resolved.
C31_LinkedTaskResolves ==
    [][\A t \in DOMAIN tasks' \ DOMAIN tasks :
          tasks'[t].requestId # 0 =>
              /\ tasks'[t].requestId \in DOMAIN pendingRequests
              /\ ~pendingRequests[tasks'[t].requestId].resolved
              /\ pendingRequests'[tasks'[t].requestId].resolved]_vars

\* C32: for every question request at most one task with that linkedRequestId
\* is ever enqueued, whatever the order of option clicks, replies, polls,
\* cancels and sweeps; the step that enqueues it resolves the request.
C32_OneLinkedTaskPerQuestion ==
    /\ [](\A r \in ReqIds :
             Live(r) /\ pendingRequests[r].type = "question" => linked[r] <= 1)
    /\ [][\A r \in ReqIds :
             (Live(r) /\ pendingRequests[r].type = "question" /\ linked'[r] > linked[r])
                 => ~pendingRequests[r].resolved /\ pendingRequests'[r].resolved]_vars

\* A question request has its one linked task, and a later click or reply for
\* it was turned down.
C32_Witness ==
    \E r \in ReqIds :
        /\ Live(r) /\ pendingRequests[r].type = "question"
        /\ linked[r] = 1
        /\ refused[r]

\* The authorization request r is unresolved after its budget.
LateAuth(r) ==
    /\ Live(r) /\ pendingRequests[r].type = "authorization"
    /\ ~pendingRequests[r].resolved /\ Expired(r)

\* C33: no human action that arrives after an authorization request's budget
\* has elapsed produces decision allow or sets allow-all for its source
\* session: a click (allow, deny, allow-all) handled then resolves the
\* still-unresolved request to deny and leaves the allow-all entries as they
\* are, no step at all takes such a request to allow, and a step that sets
\* allow-all for a source session resolves to allow a request of that session
\* that was unresolved and within its budget.
C33_LateClickFailsClosed ==
    /\ [][\A r \in ReqIds, a \in {"allow", "deny", "allowall"} :
             (LateAuth(r) /\ ProcessCallbackAuth(a, r)) =>
                 /\ pendingRequests'[r].resolved
                 /\ pendingRequests'[r].decision = "deny"
                 /\ sessionStates' = sessionStates]_vars
    /\ [][\A r \in ReqIds :
             (LateAuth(r) /\ r \in DOMAIN pendingRequests') =>
                 pendingRequests'[r].decision # "allow"]_vars
    /\ [][\A s \in SourceSessions :
             (isSessionAllowAll(sessionStates', s) /\ ~isSessionAllowAll(sessionStates, s)) =>
                 \E r \in DOMAIN pendingRequests :
                     /\ pendingRequests[r].sessionId = s
                     /\ pendingRequests[r].type = "authorization"
                     /\ ~pendingRequests[r].resolved /\ ~Expired(r)
                     /\ pendingRequests'[r].decision = "allow"]_vars

\* A click came after the budget of an authorization request that no poll and
\* no cancel had resolved: the request is denied, and allow-all is not set.
C33_Witness ==
    \E r \in ReqIds :
        /\ Live(r) /\ pendingRequests[r].type = "authorization"
        /\ pendingRequests[r].resolved /\ ~pendingRequests[r].cancelled
        /\ pendingRequests[r].decision = "deny"
        /\ Expired(r) /\ ~timeoutSeen[r] /\ humanRes[r] = "none"
        /\ ~isSessionAllowAll(sessionStates, pendingRequests[r].sessionId)

\* C34: allow-all short-circuits authorization intakes only: a question intake
\* from a source session that has allow-all set is answered pending, creates
\* an unresolved question request for that session and dispatches its
\* notification, and is not counted as answered at once.
C34_QuestionIntakeNotShortCircuited ==
    /\ [](\A s \in SourceSessions :
             isSessionAllowAll(sessionStates, s) =>
                 authorizeResponse(sessionStates, s, "question", TRUE).status = "pending")
    /\ [][\A s \in SourceSessions, o \in OptionLists :
             (/\ isSessionAllowAll(sessionStates, s)
              /\ AuthorizeUpTo(MaxIntakes, s, "question", TRUE, o)) =>
                 /\ nextReq \in DOMAIN pendingRequests' \ DOMAIN pendingRequests
                 /\ pendingRequests'[nextReq].type = "question"
                 /\ pendingRequests'[nextReq].sessionId = s
                 /\ ~pendingRequests'[nextReq].resolved
                 /\ nextReq \in outbox'
                 /\ allowAllHits' = allowAllHits]_vars

\* A question request of a source session was created after allow-all was set
\* for that session; it is unresolved and its notification is on its way or
\* out.
C34_Witness ==
    \E r \in 1..MaxIntakes :
        /\ Live(r) /\ pendingRequests[r].type = "question"
        /\ ~pendingRequests[r].resolved
        /\ isSessionAllowAll(sessionStates, pendingRequests[r].sessionId)
        /\ pendingRequests[r].createdAt >
               sessionStates[pendingRequests[r].sessionId].createdAt
        /\ (r \in outbox \/ pendingRequests[r].messageId # 0)

\* The choice handler of the notification n is at its await.
MqInHandler(n) == tg.kind = "mq" /\ tg.req = n

\* C35: for every live multi-step selection state, observed between choice
\* handlers, currentIndex is at least 0 and below the number of sub-questions,
\* and the number of collected answers equals currentIndex.
C35_SelectionStateInRange ==
    \A n \in DOMAIN multiQuestionStates :
        ~MqInHandler(n) =>
            /\ 0 <= multiQuestionStates[n].currentIndex
            /\ multiQuestionStates[n].currentIndex < Len(multiQuestionStates[n].questions)
            /\ Len(multiQuestionStates[n].answers) = multiQuestionStates[n].currentIndex

\* A selection of two sub-questions whose first choice was handled: it is live
\* at its second sub-question with one answer collected.
C35_Witness ==
    \E n \in DOMAIN multiQuestionStates :
        /\ ~MqInHandler(n)
        /\ Len(multiQuestionStates[n].questions) = 2
        /\ multiQuestionStates[n].currentIndex = 1
        /\ Len(multiQuestionStates[n].answers) = 1

\* C36 as stated: each task is injected into the terminal at most once by the
\* wrapper's poll, inject, acknowledge loop, including when an
\* acknowledgement fails or is lost before the next poll.
C36_InjectedAtMostOnce ==
    \A t \in 1..MaxTasks : wrapper.injections[t] <= 1

\* C37 as stated: a registered session whose wrapper keeps polling for pending
\* tasks is never removed by the inactivity sweep: while the wrapper has
\* fetched in every time unit up to now, its session is registered (so a
\* task enqueued now would reach it).
C37_PollingSessionStays ==
    (/\ wrapper.session # 0
     /\ wrapper.steady
     /\ now - wrapper.fetchedAt <= 1) => wrapper.session \in DOMAIN sessions

\* C38: pollUpdates hands every update to its handler at most once, also
\* when a handler throws partway through a batch: the updates up to
\* lastUpdateId were dispatched exactly once and those after it not yet, so
\* that the next getUpdates (offset lastUpdateId + 1) returns the updates
\* that followed the failing one; lastUpdateId never decreases.
C38_DispatchedAtMostOnce ==
    /\ [](\A u \in 1..MaxUpdates :
             dispatched[u] = IF u <= poller.lastUpdateId THEN 1 ELSE 0)
    /\ [](poller.lastUpdateId <= Len(telegram))
    /\ [][poller'.lastUpdateId >= poller.lastUpdateId]_vars

\* An update that was left in its batch when a handler threw has been
\* dispatched since.
C38_Witness ==
    \E u \in poller.dropped : dispatched[u] = 1 /\ u <= poller.lastUpdateId

\* The update that pollUpdates hands to its handler in this step comes from
\* a chat other than the configured one.
ForeignDispatch ==
    /\ poller.batch # <<>>
    /\ dispatched' # dispatched
    /\ String(telegram[Head(poller.batch)].chat) # CHAT_ID

\* C39: handling a callback or a message of a chat other than the configured
\* one changes no request, no task, no allow-all entry, no multi-step
\* selection state and no pending task message (nor a terminal session or a
\* handler in flight).
C39_ForeignChatChangesNothing ==
    [][ForeignDispatch =>
          UNCHANGED <<pendingRequests, tasks, sessionStates, multiQuestionStates,
                      pendingTaskMessages, sessions, nextTask, tg>>]_vars

\* An allow-all click, a choice of a multi-step selection and a plain text
\* have come from a foreign chat and been handled, at a time when the same
\* updates of the configured chat would have been acted on: the request is
\* unresolved, the selection is live, two terminal sessions are registered.
C39_Witness ==
    /\ \A k \in {"allowall", "text", "mq"} :
           \E u \in 1..MaxUpdates :
               /\ u <= poller.lastUpdateId
               /\ telegram[u].kind = k
               /\ String(telegram[u].chat) # CHAT_ID
    /\ Cardinality(DOMAIN sessions) = 2
    /\ \E r \in DOMAIN pendingRequests :
           ~pendingRequests[r].resolved /\ pendingRequests[r].messageId # 0
    /\ \E n \in DOMAIN multiQuestionStates : multiQuestionStates[n].messageId # 0
    /\ tasks = <<>> /\ pendingTaskMessages = <<>>
    /\ sessionStates = <<>>

\* C40: the text of a reply to a question reaches the terminal as literal
\* text followed by Enter: of the commands that the wrapper runs for the task
\* of a reply (in SpecReply every task is one), the first sends the task's
\* text with the literal flag and the second is the Enter that submits it.
C40_ReplyInjectedLiterally ==
    wrapper.batch # <<>> =>
        \A i \in DOMAIN wrapper.sent :
            IF i = 1
            THEN wrapper.sent[i].literal /\ wrapper.sent[i].key = wrapper.batch[1].message
            ELSE wrapper.sent[i].part = "submit"

====
